---- MODULE Spec2Model ----
(***************************************************************************)
(* Model of the flight selection engine of src/logic/filter.py together    *)
(* with the currency handler (src/currencies/cash.py) and the mileage      *)
(* table (src/currencies/mileage.py).                                      *)
(*                                                                         *)
(* Conventions.                                                            *)
(*  - A pandas DataFrame is a sequence of rows (records), in row order.    *)
(*  - A Python dict is a sequence of <<key, value>> entries in insertion   *)
(*    order (Python dicts iterate in insertion order).                     *)
(*  - An optional integer is <<>> (None) or <<v>>.                         *)
(*  - A float exchange rate r is the integer 1000 * r (three decimals);    *)
(*    a distance (kilometres) is <<>> (None), <<d>> with d a non-negative  *)
(*    integer, or NaN.                                                     *)
(*  - A call that raises yields err # "ok".                                *)
(*  - summary_trip is the record filter.py constructs (ID, origin_city,    *)
(*    destination_city, totalCost, distance).                              *)
(***************************************************************************)
EXTENDS Integers, Sequences, FiniteSets, TLC

VARIABLES
    mode,          \* which entry point this behaviour exercises
    pc,            \* position of the entry point
    api,           \* exchange-rate service: currency -> HTTP response
    cache,         \* CashHandler.cache: dict currency -> rate scaled by 100
    cache0,        \* the cache as it was when the behaviour started
    flights_df,    \* __proccessCabinDf: the normalized rows handed in
    source,        \* the source (mileage program) of the pass
    mileage_table, \* Mileage.mileage_values: dict program -> value
    cabin_arg,     \* __proccessCabinDf: the cabin handed in
    cabin_out,     \* __proccessCabinDf: [err, df]
    conv_arg,      \* convert_to_system_base: [amount, currency]
    conv_out,      \* convert_to_system_base: [err, v]
    bulk_availability,  \* round-trip pass: the raw batch of one source
    min_return_days,    \* round-trip pass: optional int
    max_return_days,    \* round-trip pass: optional int
    include_cabins,     \* round-trip pass: list of cabins
    filter,             \* round-trip pass: filter dict (empty: None or {})
    round_out,          \* round-trip pass: [err, ret, built, parts]
    sel_in,             \* selector: the cabin -> pairing -> candidates map
    sel_n,              \* selector: n
    sel_runs,           \* selector: [err, ret] of each run made on sel_in
    bulk_availability_by_source, \* merge: source -> raw batch
    n_arg,              \* merge: n
    src_i,              \* merge: position of the loop over the sources
    merged_trips,       \* merge: trips_by_cabin, the map built so far
    source_maps,        \* merge: the map each source pass returned, in order
    merge_out,          \* merge: [err, ret]
    norm_out,           \* normalizer: the frame returned for bulk_availability
    single_out,         \* single-trip pass: [err, ret, parts]
    pick_n,             \* selection after a pass: n
    pick_out,           \* selection after a pass: [err, ret]
    filt_in,            \* __filter_trip: [outbound_row, filters, return_row]
    filt_out,           \* __filter_trip: [err, v]
    score_in,           \* __score: the trips passed
    score_out,          \* __score: [err, inf, num, den]
    lookups,            \* get_rate: thread -> [pc, base_currency, rate, ret]
    requests_made,      \* fetch_rate: currency -> requests sent to the service
    pages,              \* seats.aero: the response to the 1st, 2nd, ... request
    deepness,           \* fetch_bulk_availability: deepness
    fetch_state,        \* fetch_bulk_availability: [at, requests, all_data,
                        \*   seen_ids, response]
    fetch_out,          \* fetch_bulk_availability: [err, ret]
    roundTrips,         \* Route.__init__: the list of round trips handed in
    route               \* Route.__init__: the attributes of the object built

cashVars  == <<api, cache, cache0>>
cabinVars == <<flights_df, source, cabin_arg, cabin_out>>
convVars  == <<conv_arg, conv_out>>
roundVars == <<bulk_availability, min_return_days, max_return_days,
               include_cabins, filter, round_out>>
selVars == <<sel_in, sel_n, sel_runs>>
mergeVars == <<bulk_availability_by_source, n_arg, src_i, merged_trips,
               source_maps, merge_out>>
passVars == <<norm_out, single_out, pick_n, pick_out>>
filtVars == <<filt_in, filt_out>>
scoreVars == <<score_in, score_out>>
lookupVars == <<lookups, requests_made>>
fetchVars == <<pages, deepness, fetch_state, fetch_out>>
routeVars == <<roundTrips, route>>
serviceVars == <<lookupVars, fetchVars, routeVars>>
vars == <<mode, pc, mileage_table, serviceVars, cashVars, cabinVars, convVars, roundVars, selVars, mergeVars,
          passVars, filtVars, scoreVars>>

\* The variables of the entry points a behaviour does not exercise.
LookupUnused ==
    /\ lookups = <<>>
    /\ requests_made = <<>>

FetchUnused ==
    /\ pages = <<>>
    /\ deepness = 0
    /\ fetch_state = <<>>
    /\ fetch_out = [err |-> "idle"]

RouteUnused ==
    /\ roundTrips = <<>>
    /\ route = [err |-> "idle"]

ServiceUnused ==
    /\ LookupUnused
    /\ FetchUnused
    /\ RouteUnused

(***************************************************************************)
(* Bounds of the model.                                                    *)
(***************************************************************************)
MaxRows == 2          \* rows of a data frame handed to the cabin partitioner
MaxBatch == 3         \* records of a raw batch handed to the round-trip pass
MaxDate == 4          \* travel dates are days 1..MaxDate
MaxCands == 6         \* candidates of the longest list handed to the selector
MaxN == 2             \* the selector's n is 1..MaxN
MaxSrcBatch == 2      \* records in one source's batch of the merge

(***************************************************************************)
(* Enumerations and configuration.                                         *)
(***************************************************************************)
CABIN == <<"Y", "W", "J", "F">>

SOURCE == {"azul", "smiles", "qantas"}

target_currency == "USD"

Currencies == {"USD", "BRL", "EUR"}

mileage_values == [p \in SOURCE |->
    CASE p = "azul" -> 1400 [] p = "smiles" -> 1500 [] OTHER -> 3000]

Range(s) == {s[i] : i \in DOMAIN s}

(***************************************************************************)
(* src/currencies/mileage.py                                               *)
(***************************************************************************)
\* the valuation lookup failing silently: a pass that costs with 0
get_mileage_value_default(program) ==
    IF program \in DOMAIN mileage_table
        THEN [err |-> "ok", v |-> mileage_table[program]]
        ELSE [err |-> "ok", v |-> 0]

get_mileage_value(program) ==
    IF program \in DOMAIN mileage_table
        THEN [err |-> "ok", v |-> mileage_table[program]]
        ELSE [err |-> "ValueError", v |-> 0]

(***************************************************************************)
(* src/currencies/cash.py                                                  *)
(***************************************************************************)
\* int(amount * 100) of a non-negative float given in thousandths.
normal_to_cents(amount) ==
    IF amount < 0
        THEN [err |-> "ValueError", v |-> 0]
        ELSE [err |-> "ok", v |-> (amount * 100) \div 1000]

fetch_rate(base_currency) ==
    IF api[base_currency].status_code = 200
        THEN IF api[base_currency].conversion_rate # <<>>
                 THEN [err |-> "ok", rate |-> api[base_currency].conversion_rate[1]]
                 ELSE [err |-> "ValueError", rate |-> 0]
        ELSE [err |-> "Exception", rate |-> 0]

\* The write of the unscaled rate (cash.py:90) is overwritten by the scaled
\* one (cash.py:70) before get_rate returns.
\* self.cache[base_currency] = normal_to_cents(rate) (cash.py:70), s being
\* the outcome of normal_to_cents
CacheScaled(c, base_currency, s) ==
    [err |-> s.err, rate |-> s.v,
     cache |-> [k \in DOMAIN c \cup {base_currency} |->
                   IF k = base_currency THEN s.v ELSE c[k]]]

\* get_rate on a cache miss, f being the outcome of fetch_rate
RateFetched(c, base_currency, f) ==
    IF f.err # "ok"
        THEN [err |-> f.err, rate |-> 0, cache |-> c]
        ELSE CacheScaled(c, base_currency, normal_to_cents(f.rate))

get_rate(c, base_currency) ==
    IF base_currency \in DOMAIN c
        THEN [err |-> "ok", rate |-> c[base_currency], cache |-> c]
        ELSE RateFetched(c, base_currency, fetch_rate(base_currency))

convert_to_system_base_swapped(c, amount_in_cents, base_currency) ==
    IF target_currency = base_currency
        THEN [err |-> "ok", v |-> amount_in_cents, cache |-> c]
        ELSE LET r == get_rate(c, base_currency) IN
             IF r.err # "ok"
                 THEN [err |-> r.err, v |-> 0, cache |-> r.cache]
                 ELSE [err |-> "ok", v |-> amount_in_cents * (r.rate \div 100),
                       cache |-> r.cache]

\* (amount_in_cents * rate) // 100 (cash.py:117), r being the outcome of get_rate
Converted(amount_in_cents, r) ==
    IF r.err # "ok"
        THEN [err |-> r.err, v |-> 0, cache |-> r.cache]
        ELSE [err |-> "ok", v |-> (amount_in_cents * r.rate) \div 100,
              cache |-> r.cache]

convert_to_system_base(c, amount_in_cents, base_currency) ==
    IF target_currency = base_currency
        THEN [err |-> "ok", v |-> amount_in_cents, cache |-> c]
        ELSE Converted(amount_in_cents, get_rate(c, base_currency))

(***************************************************************************)
(* src/logic/filter.py: cost basis and cabin partitioner                   *)
(***************************************************************************)
calc_cost_rounded(row, cabin, mileage_value) ==
    (row.fare[cabin].MileageCostRaw * mileage_value + 500) \div 1000
        + row.TotalTaxes_Standard

calc_cost(row, cabin, mileage_value) ==
    (row.fare[cabin].MileageCostRaw * mileage_value) \div 1000
        + row.TotalTaxes_Standard

IsBookable_flagOnly(row, cabin) ==
    row.fare[cabin].Available = TRUE

IsBookable(row, cabin) ==
    /\ row.fare[cabin].Available = TRUE
    /\ row.fare[cabin].RemainingSeats > 0

\* cabin_df.apply(convert_to_system_base(...), axis=1): row by row, in order;
\* the first lookup that raises aborts the pass.
RECURSIVE ApplyTaxes(_, _, _, _)
\* one row of the apply, t being the outcome of convert_to_system_base
ApplyTaxesRow(rows, cabin, acc, t) ==
    IF t.err # "ok"
        THEN [err |-> t.err, df |-> <<>>, cache |-> t.cache]
        ELSE ApplyTaxes(Tail(rows), cabin, t.cache,
                 Append(acc, [k \in DOMAIN rows[1] \cup {"TotalTaxes_Standard"} |->
                     IF k = "TotalTaxes_Standard" THEN t.v ELSE rows[1][k]]))

ApplyTaxes(rows, cabin, c, acc) ==
    IF rows = <<>>
        THEN [err |-> "ok", df |-> acc, cache |-> c]
        ELSE ApplyTaxesRow(rows, cabin, acc,
                 convert_to_system_base(c, rows[1].fare[cabin].TotalTaxes,
                                        rows[1].TaxesCurrency))

\* cabin_df["TotalCost"] = cabin_df.apply(__calc_cost, axis=1), t being the
\* outcome of the taxes column
WithTotalCost(t, mileage_value, cabin) ==
    IF t.err # "ok"
        THEN t
        ELSE [err |-> "ok", cache |-> t.cache,
              df |-> [i \in DOMAIN t.df |->
                  [k \in DOMAIN t.df[i] \cup {"TotalCost"} |->
                      IF k = "TotalCost"
                          THEN calc_cost(t.df[i], cabin, mileage_value)
                          ELSE t.df[i][k]]]]

\* the bookable rows of the frame for a cabin
AvailableRows(df, cabin) == SelectSeq(df, LAMBDA row : IsBookable(row, cabin))

\* the cabin frame once its bookable rows are known
CabinFrame(kept, mileage_value, cabin, c) ==
    IF kept = <<>>
        THEN [err |-> "ok", df |-> <<>>, cache |-> c]
        ELSE WithTotalCost(ApplyTaxes(kept, cabin, c, <<>>), mileage_value, cabin)

proccessCabinDf(df, mileage_value, cabin, c) ==
    CabinFrame(AvailableRows(df, cabin), mileage_value, cabin, c)

(***************************************************************************)
(* Python dicts as sequences of <<key, value>> in insertion order.         *)
(***************************************************************************)
DictKeys(d) == [i \in DOMAIN d |-> d[i][1]]

HasKey(d, k) == \E i \in DOMAIN d : d[i][1] = k

DictGet(d, k) == d[CHOOSE i \in DOMAIN d : d[i][1] = k][2]

\* d[k] = v: a new key goes last, an existing key keeps its place.
DictSet(d, k, v) ==
    IF HasKey(d, k)
        THEN [i \in DOMAIN d |-> IF d[i][1] = k THEN <<k, v>> ELSE d[i]]
        ELSE Append(d, <<k, v>>)

\* Series.get(key, default)
RowGet(row, key, default) ==
    IF key \in DOMAIN row THEN row[key] ELSE default

\* Python truthiness of an optional int: None and 0 are falsy.
Truthy(opt) == opt # <<>> /\ opt[1] # 0

NoneResult == [none |-> TRUE, v |-> <<>>]

Value(v) == [none |-> FALSE, v |-> v]

\* `not result` for a result that is None or a dict
Falsy(res) == res.none \/ res.v = <<>>

(***************************************************************************)
(* src/config.py: the airport metadata tables (IATA_CITY, IATA_COUNTRY,    *)
(* IATA_LATITUDE, IATA_LONGITUDE), in whole degrees.                       *)
(***************************************************************************)
\* MCP resolves to a city and a country; the coordinate tables hold no
\* value for it.
IATA_CITY ==
    [a \in {"GRU", "CGH", "JFK", "LHR", "MCP"} |->
        CASE a = "GRU" -> "Sao Paulo" [] a = "CGH" -> "Sao Paulo"
          [] a = "JFK" -> "New York"  [] a = "MCP" -> "Macapa"
          [] OTHER -> "London"]

IATA_COUNTRY ==
    [a \in {"GRU", "CGH", "JFK", "LHR", "MCP"} |->
        CASE a = "GRU" -> "BR" [] a = "CGH" -> "BR" [] a = "MCP" -> "BR"
          [] a = "JFK" -> "US" [] OTHER -> "GB"]

IATA_LATITUDE ==
    [a \in {"GRU", "CGH", "JFK", "LHR"} |->
        CASE a = "GRU" -> -23 [] a = "CGH" -> -24
          [] a = "JFK" -> 41  [] OTHER -> 51]

IATA_LONGITUDE ==
    [a \in {"GRU", "CGH", "JFK", "LHR"} |->
        CASE a = "GRU" -> -46 [] a = "CGH" -> -47
          [] a = "JFK" -> -74 [] OTHER -> -1]

\* dict.get(key): <<>> when the key is missing.
TableGet(table, key) == IF key \in DOMAIN table THEN <<table[key]>> ELSE <<>>

\* Cities in the order pandas sorts group keys (lexicographic).
CityOrder == <<"London", "Macapa", "New York", "Sao Paulo">>

Abs(x) == IF x < 0 THEN 0 - x ELSE x

\* great_circle(coord1, coord2).km, abstracted to a symmetric distance that
\* is zero exactly for equal coordinates (100 km per degree, taxicab).
calc_distance(coord1, coord2) ==
    100 * (Abs(coord1[1] - coord2[1]) + Abs(coord1[2] - coord2[2]))

(***************************************************************************)
(* src/logic/filter.py: the record normalizer                              *)
(***************************************************************************)
NormalizeRow(r) ==
    LET o == r.OriginAirport
        d == r.DestinationAirport
        olat == TableGet(IATA_LATITUDE, o)
        olon == TableGet(IATA_LONGITUDE, o)
        dlat == TableGet(IATA_LATITUDE, d)
        dlon == TableGet(IATA_LONGITUDE, d)
    IN  [ID |-> r.ID, OriginAirport |-> o, DestinationAirport |-> d,
         Date |-> r.Date, TaxesCurrency |-> r.TaxesCurrency, fare |-> r.fare,
         origin_city |-> IATA_CITY[o], destination_city |-> IATA_CITY[d],
         origin_country |-> IATA_COUNTRY[o],
         destination_country |-> IATA_COUNTRY[d],
         Distance |-> IF Truthy(olat) /\ Truthy(olon) /\ Truthy(dlat) /\ Truthy(dlon)
                          THEN <<calc_distance(<<olat[1], olon[1]>>, <<dlat[1], dlon[1]>>)>>
                          ELSE <<>>]

\* the dropna calls dropping the rows without coordinates as well
Resolves_withCoordinates(r) ==
    /\ r.OriginAirport \in DOMAIN IATA_LATITUDE
    /\ r.DestinationAirport \in DOMAIN IATA_LATITUDE

\* kept by both dropna calls (filter.py:347, 354); the city and the country
\* tables have the same keys
Resolves(r) ==
    /\ r.OriginAirport \in DOMAIN IATA_CITY
    /\ r.DestinationAirport \in DOMAIN IATA_CITY
    /\ r.OriginAirport \in DOMAIN IATA_COUNTRY
    /\ r.DestinationAirport \in DOMAIN IATA_COUNTRY

\* float('nan'): the value pandas stores for None in a float column
NaN == <<"nan", "nan">>

IsNaN(distance) == Len(distance) = 2

\* df["Distance"] = df.apply(..., axis=1): the results form a float column,
\* None becoming NaN, as soon as one of them is a number; a column of None
\* only keeps None.
DistanceColumn(rows) ==
    IF \E i \in DOMAIN rows : rows[i].Distance # <<>>
        THEN [i \in DOMAIN rows |->
                 IF rows[i].Distance = <<>>
                     THEN [rows[i] EXCEPT !.Distance = NaN]
                     ELSE rows[i]]
        ELSE rows

\* the rows left by the two dropna calls, with the columns added
NormalizedRows(kept) == [i \in DOMAIN kept |-> NormalizeRow(kept[i])]

\* Returns the data frame; None (here <<>>) for an empty batch.
proccess_BulkAvailability(bulk) ==
    DistanceColumn(NormalizedRows(SelectSeq(bulk, Resolves)))

(***************************************************************************)
(* src/logic/filter.py: the filter predicate                               *)
(***************************************************************************)
\* __filter_trip testing the origin country only
filter_trip_originOnly(outbound_row, filters, return_row) ==
    "origin_country" \in DOMAIN filters =>
        RowGet(outbound_row, "origin_country", "Unknown") = filters["origin_country"]

filter_trip(outbound_row, filters, return_row) ==
    /\ "origin_country" \in DOMAIN filters =>
           RowGet(outbound_row, "origin_country", "Unknown") = filters["origin_country"]
    /\ "destination_country" \in DOMAIN filters =>
           RowGet(outbound_row, "destination_country", "Unknown") = filters["destination_country"]
    /\ "origin_cities" \in DOMAIN filters =>
           RowGet(outbound_row, "origin_city", "Unknown") \in filters["origin_cities"]
    /\ "destination_cities" \in DOMAIN filters =>
           RowGet(outbound_row, "destination_city", "Unknown") \in filters["destination_cities"]
    /\ "max_cost" \in DOMAIN filters =>
           ~(RowGet(outbound_row, "totalCost", 0)
                + (IF return_row # <<>> THEN RowGet(return_row[1], "totalCost", 0) ELSE 0)
                    > filters["max_cost"])
    /\ "min_distance" \in DOMAIN filters =>
           ~(RowGet(outbound_row, "distance", 0) < filters["min_distance"])
    /\ "max_distance" \in DOMAIN filters =>
           ~(RowGet(outbound_row, "distance", 0) > filters["max_distance"])
    /\ "exclude_origin_cities" \in DOMAIN filters =>
           RowGet(outbound_row, "origin_city", "Unknown") \notin filters["exclude_origin_cities"]
    /\ "exclude_destination_cities" \in DOMAIN filters =>
           RowGet(outbound_row, "destination_city", "Unknown") \notin filters["exclude_destination_cities"]

(***************************************************************************)
(* src/logic/filter.py: the round-trip pairing engine                      *)
(***************************************************************************)
summary_trip(row) ==
    [ID |-> row.ID, origin_city |-> row.origin_city,
     destination_city |-> row.destination_city,
     totalCost |-> row.TotalCost, distance |-> row.Distance]

summary_round_trip(outbound, return_) ==
    [outbound |-> summary_trip(outbound), return_ |-> summary_trip(return_)]

DateOrderRejects_strict(outbound, return_) == return_.Date < outbound.Date

\* if return_["Date"] <= outbound["Date"]: continue
DateOrderRejects(outbound, return_) == return_.Date <= outbound.Date

WindowApplies_supplied(mn, mx) == mn # <<>> /\ mx # <<>>

\* if min_return_days and max_return_days:
WindowApplies(mn, mx) == Truthy(mn) /\ Truthy(mx)

WindowRejects(outbound, return_, mn, mx) ==
    LET interval == return_.Date - outbound.Date IN
    interval < mn[1] \/ interval > mx[1]

PairAccepted(outbound, return_, mn, mx, flt) ==
    /\ ~DateOrderRejects(outbound, return_)
    /\ WindowApplies(mn, mx) => ~WindowRejects(outbound, return_, mn, mx)
    /\ flt # <<>> => filter_trip(outbound, flt, <<return_>>)

\* cabin_df[(origin_city == origin) & (destination_city == destination)]
GroupRows(cabin_df, origin, destination) ==
    SelectSeq(cabin_df, LAMBDA row :
        row.origin_city = origin /\ row.destination_city = destination)

\* the nested iterrows loops: outbound rows in order, and for each the
\* reverse-direction rows in order
PairsOf(group, reverse_cabin_group) ==
    [k \in 1..(Len(group) * Len(reverse_cabin_group)) |->
        <<group[(k - 1) \div Len(reverse_cabin_group) + 1],
          reverse_cabin_group[((k - 1) % Len(reverse_cabin_group)) + 1]>>]

KeptPairs(pairs, mn, mx, flt) ==
    SelectSeq(pairs, LAMBDA pr : PairAccepted(pr[1], pr[2], mn, mx, flt))

SummariesOf(kept) ==
    [i \in DOMAIN kept |-> summary_round_trip(kept[i][1], kept[i][2])]

\* The candidate list of one group.
RoundTripsOfGroup(cabin_df, origin, destination, mn, mx, flt) ==
    SummariesOf(KeptPairs(PairsOf(GroupRows(cabin_df, origin, destination),
                                  GroupRows(cabin_df, destination, origin)),
                          mn, mx, flt))

\* The keys of cabin_df.groupby(["origin_city", "destination_city"]), sorted.
GroupKeys(cabin_df) ==
    LET n == Len(CityOrder)
        all == [k \in 1..(n * n) |->
                   <<CityOrder[(k - 1) \div n + 1], CityOrder[((k - 1) % n) + 1]>>]
    IN  SelectSeq(all, LAMBDA key : \E i \in DOMAIN cabin_df :
            cabin_df[i].origin_city = key[1] /\ cabin_df[i].destination_city = key[2])

\* round_trips_by_city[(origin, destination)] = round_trips_list, skipped
\* for an empty list
AddGroup(acc, key, round_trips_list) ==
    IF round_trips_list = <<>> THEN acc ELSE DictSet(acc, key, round_trips_list)

RECURSIVE RoundTripsByCity(_, _, _, _, _, _)
RoundTripsByCity(keys, cabin_df, mn, mx, flt, acc) ==
    IF keys = <<>>
        THEN acc
        ELSE RoundTripsByCity(Tail(keys), cabin_df, mn, mx, flt,
                 AddGroup(acc, keys[1],
                          RoundTripsOfGroup(cabin_df, keys[1][1], keys[1][2],
                                            mn, mx, flt)))

\* The loop over include_cabins (filter.py:568-654).  st carries
\* trips_by_cabin, has_trips ("unbound" before its first assignment), the
\* cache, and parts: the cabin frames computed, for the claims.
WithPart(st, cabin, p) ==
    [st EXCEPT !.cache = p.cache, !.parts = DictSet(st.parts, cabin, p.df)]

\* the end of one iteration, given the cabin frame and its pairings
CabinPaired(st1, cabin, df, round_trips_by_city) ==
    IF df = <<>>
        THEN st1
        ELSE IF round_trips_by_city = <<>>
            THEN [st1 EXCEPT !.has_trips = "False"]
            ELSE [st1 EXCEPT !.has_trips = "True",
                     !.trips_by_cabin =
                         DictSet(st1.trips_by_cabin, cabin, round_trips_by_city)]

RECURSIVE CabinLoop(_, _, _, _, _, _, _)
\* one iteration, p being the outcome of __proccessCabinDf
CabinStep(cabins, bulk_df, mileage_value, mn, mx, flt, st, p) ==
    IF p.err # "ok"
        THEN [st EXCEPT !.err = p.err, !.cache = p.cache]
        ELSE CabinLoop(Tail(cabins), bulk_df, mileage_value, mn, mx, flt,
                 CabinPaired(WithPart(st, cabins[1], p), cabins[1], p.df,
                     RoundTripsByCity(GroupKeys(p.df), p.df, mn, mx, flt, <<>>)))

CabinLoop(cabins, bulk_df, mileage_value, mn, mx, flt, st) ==
    IF cabins = <<>>
        THEN st
        ELSE CabinStep(cabins, bulk_df, mileage_value, mn, mx, flt, st,
                 proccessCabinDf(bulk_df, mileage_value, cabins[1], st.cache))

\* filter.py:555 and 562 raising instead of returning None
NoneOut_raising(c, err) ==
    [err |-> "ValueError", cache |-> c, ret |-> NoneResult,
     trips_by_cabin |-> <<>>, parts |-> <<>>]

\* return None
NoneOut(c, err) ==
    [err |-> err, cache |-> c, ret |-> NoneResult,
     trips_by_cabin |-> <<>>, parts |-> <<>>]

\* the return after the loop (filter.py:656-661)
RoundResult(st) ==
    [err |-> st.err, cache |-> st.cache,
     trips_by_cabin |-> st.trips_by_cabin, parts |-> st.parts,
     ret |-> IF st.err # "ok" \/ st.trips_by_cabin = <<>> \/ st.has_trips = "False"
                 THEN NoneResult
                 ELSE Value(st.trips_by_cabin)]

\* the pass once the batch is normalized and the mileage value looked up
ProcessFrame(bulk_df, mv, mn, mx, cabins, flt, c) ==
    IF bulk_df = <<>> THEN NoneOut(c, "ok")
    ELSE IF mv.err # "ok" THEN NoneOut(c, mv.err)
    ELSE RoundResult(CabinLoop(cabins, bulk_df, mv.v, mn, mx, flt,
             [err |-> "ok", cache |-> c, trips_by_cabin |-> <<>>,
              has_trips |-> "unbound", parts |-> <<>>]))

process_bulk_availability_object_for_round_trips(bulk, src, mn, mx, cabins, flt, c) ==
    IF bulk = <<>> THEN NoneOut(c, "ok")
    ELSE ProcessFrame(proccess_BulkAvailability(bulk), get_mileage_value(src),
                      mn, mx, cabins, flt, c)

(***************************************************************************)
(* src/logic/filter.py: the single-trip pass                               *)
(***************************************************************************)
DictValues(d) == [i \in DOMAIN d |-> d[i][2]]

\* filter.py:494-500 with >= replaced by >: the last of the cheapest wins
KeepCheapest_lastWins(city_trips, trip) ==
    LET key == <<trip.origin_city, trip.destination_city>> IN
    IF HasKey(city_trips, key) /\ trip.totalCost > DictGet(city_trips, key).totalCost
        THEN city_trips
        ELSE DictSet(city_trips, key, trip)

\* filter.py:494-500: a pair seen for the first time takes the trip (its
\* placeholder {} is falsy); a known pair takes it when strictly cheaper.
KeepCheapest(city_trips, trip) ==
    LET key == <<trip.origin_city, trip.destination_city>> IN
    IF HasKey(city_trips, key) /\ trip.totalCost >= DictGet(city_trips, key).totalCost
        THEN city_trips
        ELSE DictSet(city_trips, key, trip)

\* `if filter and not self.__filter_trip(row, filter): continue`
RowPasses(row, flt) == flt # <<>> => filter_trip(row, flt, <<>>)

\* the loop over cabin_df.iterrows() (filter.py:481-500)
RECURSIVE CityTrips(_, _, _)
CityTrips(cabin_df, flt, city_trips) ==
    IF cabin_df = <<>>
        THEN city_trips
        ELSE CityTrips(Tail(cabin_df), flt,
                 IF RowPasses(Head(cabin_df), flt)
                     THEN KeepCheapest(city_trips, summary_trip(Head(cabin_df)))
                     ELSE city_trips)

\* trips_by_city_by_cabin[cabin], {} when the cabin is new (filter.py:478-479)
CityTripsOfCabin(trips_by_city_by_cabin, cabin) ==
    IF HasKey(trips_by_city_by_cabin, cabin)
        THEN DictGet(trips_by_city_by_cabin, cabin)
        ELSE <<>>

\* the end of one iteration of the loop over include_cabins, given the
\* cabin frame (filter.py:474-500)
SingleCabinDone(st1, cabin, df, flt) ==
    IF df = <<>>
        THEN st1
        ELSE [st1 EXCEPT !.trips_by_city_by_cabin =
                 DictSet(@, cabin,
                     CityTrips(df, flt, CityTripsOfCabin(@, cabin)))]

RECURSIVE SingleLoop(_, _, _, _, _)
\* one iteration, p being the outcome of __proccessCabinDf
SingleStep(cabins, bulk_df, mileage_value, flt, st, p) ==
    IF p.err # "ok"
        THEN [st EXCEPT !.err = p.err, !.cache = p.cache]
        ELSE SingleLoop(Tail(cabins), bulk_df, mileage_value, flt,
                 SingleCabinDone(WithPart(st, cabins[1], p), cabins[1], p.df, flt))

SingleLoop(cabins, bulk_df, mileage_value, flt, st) ==
    IF cabins = <<>>
        THEN st
        ELSE SingleStep(cabins, bulk_df, mileage_value, flt, st,
                 proccessCabinDf(bulk_df, mileage_value, cabins[1], st.cache))

\* trips_by_cabin[cabin] = list(city_trips.values()) (filter.py:502-505)
TripsByCabin(trips_by_city_by_cabin) ==
    [i \in DOMAIN trips_by_city_by_cabin |->
        <<trips_by_city_by_cabin[i][1], DictValues(trips_by_city_by_cabin[i][2])>>]

\* the return after the loop
SingleResult(st) ==
    [err |-> st.err, cache |-> st.cache, parts |-> st.parts,
     ret |-> IF st.err # "ok"
                 THEN NoneResult
                 ELSE Value(TripsByCabin(st.trips_by_city_by_cabin))]

\* return None
SingleNone(c, err) ==
    [err |-> err, cache |-> c, parts |-> <<>>, ret |-> NoneResult]

\* the pass once the batch is normalized and the mileage value looked up
SingleFrame(bulk_df, mv, cabins, flt, c) ==
    IF bulk_df = <<>> THEN SingleNone(c, "ok")
    ELSE IF mv.err # "ok" THEN SingleNone(c, mv.err)
    ELSE SingleResult(SingleLoop(cabins, bulk_df, mv.v, flt,
             [err |-> "ok", cache |-> c, trips_by_city_by_cabin |-> <<>>,
              parts |-> <<>>]))

process_bulk_availability_object_for_single_trips(bulk, src, cabins, flt, c) ==
    IF bulk = <<>> THEN SingleNone(c, "ok")
    ELSE SingleFrame(proccess_BulkAvailability(bulk), get_mileage_value(src),
                     cabins, flt, c)

(***************************************************************************)
(* src/logic/filter.py: the scoring function.  A float score is the exact  *)
(* fraction num/den (den > 0) or positive infinity.                        *)
(***************************************************************************)
RECURSIVE SumCost(_)
SumCost(trips) ==
    IF trips = <<>> THEN 0 ELSE Head(trips).totalCost + SumCost(Tail(trips))

RECURSIVE SumDistance(_)
SumDistance(trips) ==
    IF trips = <<>> THEN 0 ELSE Head(trips).distance[1] + SumDistance(Tail(trips))

\* not trip.distance / not trip.totalCost: None and zero are falsy, NaN is
\* truthy.
InvalidTrip(trip) ==
    \/ trip.distance = <<>>
    \/ (~IsNaN(trip.distance) /\ trip.distance[1] = 0)
    \/ trip.totalCost = 0

\* the return statement of __score, given the two sums
ScoreOfSums(total_cost, total_distance) ==
    IF total_distance > 0
        THEN [err |-> "ok", inf |-> FALSE,
              num |-> 10 * total_cost, den |-> 7 * total_distance]
        ELSE [err |-> "ok", inf |-> TRUE, num |-> 0, den |-> 1]

\* total_cost / (total_distance * 0.7) = 10 * total_cost / (7 * total_distance);
\* a NaN distance makes total_distance NaN, and NaN > 0 is False.
score(trips) ==
    IF trips = <<>> THEN [err |-> "ValueError", inf |-> FALSE, num |-> 0, den |-> 1]
    ELSE IF \E i \in DOMAIN trips : InvalidTrip(trips[i])
        THEN [err |-> "ValueError", inf |-> FALSE, num |-> 0, den |-> 1]
    ELSE IF \E i \in DOMAIN trips : IsNaN(trips[i].distance)
        THEN [err |-> "ok", inf |-> TRUE, num |-> 0, den |-> 1]
    ELSE ScoreOfSums(SumCost(trips), SumDistance(trips))

\* a / b <= c / d for a, c >= 0 and b, d > 0, by comparing the continued
\* fractions (no product is formed, so large costs and distances compare
\* exactly)
RECURSIVE FracLeq(_, _, _, _)
FracLeq(a, b, c, d) ==
    IF a \div b # c \div d THEN a \div b < c \div d
    ELSE IF a % b = 0 THEN TRUE
    ELSE IF c % d = 0 THEN FALSE
    ELSE FracLeq(d, c % d, b, a % b)

\* a <= b for two scores
ScoreLeq(a, b) ==
    IF b.inf THEN TRUE
    ELSE IF a.inf THEN FALSE
    ELSE FracLeq(a.num, a.den, b.num, b.den)

\* score / k for k >= 1
ScoreDiv(a, k) == [a EXCEPT !.den = a.den * k]

(***************************************************************************)
(* list.sort(key=...) and sorted(key=...): stable, ascending.              *)
(***************************************************************************)
CombinedCost(trip) == trip.outbound.totalCost + trip.return_.totalCost

RECURSIVE InsertByCost(_, _)
InsertByCost(x, sorted) ==
    IF sorted = <<>> THEN <<x>>
    ELSE IF CombinedCost(Head(sorted)) <= CombinedCost(x)
        THEN <<Head(sorted)>> \o InsertByCost(x, Tail(sorted))
        ELSE <<x>> \o sorted

RECURSIVE SortByCost(_, _)
SortByCost(todo, done) ==
    IF todo = <<>> THEN done
    ELSE SortByCost(Tail(todo), InsertByCost(Head(todo), done))

\* entries are <<city_pairing, round_trips_list, average_score>>
RECURSIVE InsertByScore(_, _)
InsertByScore(x, sorted) ==
    IF sorted = <<>> THEN <<x>>
    ELSE IF ScoreLeq(Head(sorted)[3], x[3])
        THEN <<Head(sorted)>> \o InsertByScore(x, Tail(sorted))
        ELSE <<x>> \o sorted

RECURSIVE SortByScore(_, _)
SortByScore(todo, done) ==
    IF todo = <<>> THEN done
    ELSE SortByScore(Tail(todo), InsertByScore(Head(todo), done))

Reverse(seq) == [i \in DOMAIN seq |-> seq[Len(seq) + 1 - i]]

\* seq[:n]; a negative n drops the last -n elements.
Slice(seq, n) ==
    LET m == IF n >= 0 THEN n ELSE Len(seq) + n
        k == IF m < 0 THEN 0 ELSE IF m > Len(seq) THEN Len(seq) ELSE m
    IN  SubSeq(seq, 1, k)

(***************************************************************************)
(* src/logic/filter.py: the Top-N selector, round-trip mode                *)
(***************************************************************************)
TopK == 5

InBand_loose(trip, first_trip_cost) ==
    10 * CombinedCost(trip) <= 12 * first_trip_cost

\* (outbound + return cost) / first_trip_cost <= 1.1
InBand(trip, first_trip_cost) ==
    10 * CombinedCost(trip) <= 11 * first_trip_cost

CheapestOfList_unsorted(round_trips_list) ==
    Slice(round_trips_list, TopK)

\* round_trips_list.sort(key=combined cost); round_trips_list[:5]
CheapestOfList(round_trips_list) ==
    Slice(SortByCost(round_trips_list, <<>>), TopK)

\* sorted_cities of one cabin (filter.py:772-783): empty lists are skipped.
RECURSIVE SortedCities(_, _)
SortedCities(pairings, acc) ==
    IF pairings = <<>> THEN acc
    ELSE LET e == Head(pairings) IN
         SortedCities(Tail(pairings),
             IF e[2] = <<>> THEN acc ELSE DictSet(acc, e[1], CheapestOfList(e[2])))

\* flattened_cities of one cabin (filter.py:790-808): entries
\* <<city_pairing, round_trips_list, average_score>>.
RECURSIVE FlattenedCities(_, _)
FlattenedCities(sorted_cities, acc) ==
    IF sorted_cities = <<>> THEN [err |-> "ok", v |-> acc]
    ELSE LET e == Head(sorted_cities)
             first_trip_cost == CombinedCost(e[2][1])
             filtered_trips == SelectSeq(e[2], LAMBDA t : InBand(t, first_trip_cost))
             s == score([i \in DOMAIN filtered_trips |-> filtered_trips[i].outbound]
                        \o [i \in DOMAIN filtered_trips |-> filtered_trips[i].return_])
         IN  IF first_trip_cost = 0 THEN [err |-> "ZeroDivisionError", v |-> <<>>]
             ELSE IF filtered_trips = <<>>
                 THEN FlattenedCities(Tail(sorted_cities), acc)
             ELSE IF s.err # "ok" THEN [err |-> s.err, v |-> <<>>]
             ELSE FlattenedCities(Tail(sorted_cities),
                      Append(acc, <<e[1], filtered_trips,
                                    ScoreDiv(s, Len(filtered_trips))>>))

RankCities_descending(flattened_cities) ==
    Reverse(SortByScore(flattened_cities, <<>>))

\* flattened_cities.sort(key=average_score)
RankCities(flattened_cities) ==
    SortByScore(flattened_cities, <<>>)

\* random.shuffle: the permutation drawn is perm, a sequence of city
\* pairings without repetition; the entries come out in the order their
\* pairings have in perm.
Shuffled(entries, perm) ==
    LET present == SelectSeq(perm, LAMBDA key : \E i \in DOMAIN entries : entries[i][1] = key)
    IN  [k \in DOMAIN present |->
            entries[CHOOSE i \in DOMAIN entries : entries[i][1] = present[k]]]

SelectAndShuffle_shuffleFirst(flattened_cities, n, perm) ==
    Slice(Shuffled(flattened_cities, perm), n)

\* sort by average score, take n, shuffle (filter.py:810-812)
SelectAndShuffle(flattened_cities, n, perm) ==
    Shuffled(Slice(RankCities(flattened_cities), n), perm)

\* The loop over cabins (filter.py:767-817).
RECURSIVE CheapestCitiesByCabin(_, _, _, _)
CheapestCitiesByCabin(by_cabin, n, perm, acc) ==
    IF by_cabin = <<>> THEN [err |-> "ok", v |-> acc]
    ELSE LET cabin == Head(by_cabin)[1]
             sorted_cities == SortedCities(Head(by_cabin)[2], <<>>)
             flat == FlattenedCities(sorted_cities, <<>>)
             chosen == SelectAndShuffle(flat.v, n, perm)
         IN  IF Head(by_cabin)[2] = <<>> \/ sorted_cities = <<>>
                 THEN CheapestCitiesByCabin(Tail(by_cabin), n, perm, acc)
             ELSE IF flat.err # "ok" THEN [err |-> flat.err, v |-> <<>>]
             ELSE CheapestCitiesByCabin(Tail(by_cabin), n, perm,
                      DictSet(acc, cabin,
                              [i \in DOMAIN chosen |-> <<chosen[i][1], chosen[i][2]>>]))

\* by_cabin is [none, v]: None or a dict cabin -> dict pairing -> list.
find_cheapest_for_round_trips(by_cabin, n, perm) ==
    IF by_cabin.none \/ by_cabin.v = <<>>
        THEN [err |-> "ok", ret |-> NoneResult]
        ELSE LET r == CheapestCitiesByCabin(by_cabin.v, n, perm, <<>>) IN
             IF r.err # "ok" THEN [err |-> r.err, ret |-> NoneResult]
             ELSE [err |-> "ok", ret |-> Value(r.v)]

(***************************************************************************)
(* src/logic/filter.py: the Top-N selector, single-trip mode               *)
(***************************************************************************)
\* sorted(trips, key=lambda x: self.__score(x)): stable, ascending
RECURSIVE InsertTripByScore(_, _)
InsertTripByScore(x, sorted) ==
    IF sorted = <<>> THEN <<x>>
    ELSE IF ScoreLeq(score(<<Head(sorted)>>), score(<<x>>))
        THEN <<Head(sorted)>> \o InsertTripByScore(x, Tail(sorted))
        ELSE <<x>> \o sorted

RECURSIVE SortTripsByScore(_, _)
SortTripsByScore(todo, done) ==
    IF todo = <<>> THEN done
    ELSE SortTripsByScore(Tail(todo), InsertTripByScore(Head(todo), done))

\* filter.py:723 without the sort
SortedTrips_unsorted(trips) == trips

SortedTrips(trips) == SortTripsByScore(trips, <<>>)

\* cheapest_trips_by_cabin[cabin] = cheapest_trips, skipped when empty
AddCheapest(acc, cabin, cheapest_trips) ==
    IF cheapest_trips = <<>> THEN acc ELSE DictSet(acc, cabin, cheapest_trips)

\* the loop over trip_list_by_cabin.items() (filter.py:717-732); computing
\* the sort keys raises as soon as one trip is invalid
RECURSIVE CheapestTripsByCabin(_, _, _)
CheapestTripsByCabin(by_cabin, n, acc) ==
    IF by_cabin = <<>> THEN [err |-> "ok", v |-> acc]
    ELSE IF Head(by_cabin)[2] = <<>>
        THEN CheapestTripsByCabin(Tail(by_cabin), n, acc)
    ELSE IF \E i \in DOMAIN Head(by_cabin)[2] :
                score(<<Head(by_cabin)[2][i]>>).err # "ok"
        THEN [err |-> "ValueError", v |-> <<>>]
    ELSE CheapestTripsByCabin(Tail(by_cabin), n,
             AddCheapest(acc, Head(by_cabin)[1],
                         Slice(SortedTrips(Head(by_cabin)[2]), n)))

\* the rest of the call for a non-empty dict, given the loop's outcome
CheapestTripsResult(r) ==
    IF r.err # "ok" THEN [err |-> r.err, ret |-> NoneResult]
    ELSE [err |-> "ok", ret |-> Value(r.v)]

\* trip_list_by_cabin is [none, v]: None or a dict cabin -> list of trips.
find_cheapest_for_single_trips(trip_list_by_cabin, n) ==
    IF trip_list_by_cabin.none \/ trip_list_by_cabin.v = <<>>
        THEN [err |-> "ok", ret |-> NoneResult]
        ELSE CheapestTripsResult(CheapestTripsByCabin(trip_list_by_cabin.v, n, <<>>))

\* The input lists after find_cheapest_for_round_trips: round_trips_list.sort
\* (filter.py:781) sorts the caller's lists in place, cabin after cabin, up
\* to the cabin whose scoring raises.
RECURSIVE SortedInPlace(_)
SortedInPlace(by_cabin) ==
    IF by_cabin = <<>> THEN <<>>
    ELSE LET pairings == Head(by_cabin)[2]
             flat == FlattenedCities(SortedCities(pairings, <<>>), <<>>)
         IN  <<<<Head(by_cabin)[1],
                 [j \in DOMAIN pairings |->
                     <<pairings[j][1], SortByCost(pairings[j][2], <<>>)>>]>>>>
             \o (IF flat.err # "ok" THEN Tail(by_cabin)
                                     ELSE SortedInPlace(Tail(by_cabin)))

\* the caller's object after the call; by_cabin is [none, v]
InputAfterCall(by_cabin) ==
    IF by_cabin.none \/ by_cabin.v = <<>>
        THEN by_cabin
        ELSE Value(SortedInPlace(by_cabin.v))

(***************************************************************************)
(* Inputs of the cabin partitioner and of the currency handler.            *)
(***************************************************************************)
NoFare == [Available |-> FALSE, RemainingSeats |-> 0,
           MileageCostRaw |-> 0, TotalTaxes |-> 0]

FaresY == [Available : BOOLEAN, RemainingSeats : {0, 2},
           MileageCostRaw : {12345}, TotalTaxes : {199}]

FareJ == [Available |-> TRUE, RemainingSeats |-> 1,
          MileageCostRaw |-> 70001, TotalTaxes |-> 333]

NormRow(id, fy, cur) ==
    [ID |-> id, origin_city |-> "Sao Paulo", destination_city |-> "New York",
     origin_country |-> "BR", destination_country |-> "US",
     Date |-> 1, Distance |-> 7700, TaxesCurrency |-> cur,
     fare |-> [cb \in Range(CABIN) |->
                  CASE cb = "Y" -> fy [] cb = "J" -> FareJ [] OTHER -> NoFare]]

NormFrames ==
    UNION {{[i \in 1..k |-> NormRow(i, f[i][1], f[i][2])] :
               f \in [1..k -> FaresY \X {"USD", "BRL"}]} : k \in 1..MaxRows}

Ok(rate)   == [status_code |-> 200, conversion_rate |-> <<rate>>]
NoRateBody == [status_code |-> 200, conversion_rate |-> <<>>]
HttpError  == [status_code |-> 500, conversion_rate |-> <<>>]

\* What the rate service answers: BRL at 0.187 or failing, EUR at 1.0999.
ApiAnswers ==
    {[cur \in Currencies |->
        CASE cur = "BRL" -> b [] cur = "EUR" -> e [] OTHER -> Ok(1000)] :
        b \in {Ok(187), HttpError}, e \in {Ok(1099), NoRateBody}}

\* The cache of a fresh handler, and the one load(..., "test") installs.
InitialCaches ==
    {<<>>, [cur \in {"BRL", "EUR"} |-> IF cur = "BRL" THEN 5000 ELSE 2000]}

Amounts == {0, 1, 199, 5050}

Idle == [err |-> "idle"]

RoundUnused ==
    /\ bulk_availability = <<>>
    /\ min_return_days = <<>>
    /\ max_return_days = <<>>
    /\ include_cabins = <<>>
    /\ filter = <<>>
    /\ round_out = Idle

MergeUnused ==
    /\ bulk_availability_by_source = <<>>
    /\ n_arg = 0
    /\ src_i = 0
    /\ merged_trips = <<>>
    /\ source_maps = <<>>
    /\ merge_out = Idle

SelUnused ==
    /\ sel_in = NoneResult
    /\ sel_n = 0
    /\ sel_runs = <<>>

PassUnused ==
    /\ norm_out = <<>>
    /\ single_out = Idle
    /\ pick_n = 0
    /\ pick_out = Idle

FilterUnused ==
    /\ filt_in = <<>>
    /\ filt_out = Idle

ScoreUnused ==
    /\ score_in = <<>>
    /\ score_out = Idle

(***************************************************************************)
(* SpecCabin: the cabin partitioner and the currency handler.              *)
(***************************************************************************)
InitCabin ==
    /\ mode = "cabin"
    /\ pc = "ready"
    /\ api \in ApiAnswers
    /\ cache \in InitialCaches
    /\ cache0 = cache
    /\ flights_df \in NormFrames
    /\ source \in {"azul", "smiles"}
    /\ mileage_table = mileage_values
    /\ ServiceUnused
    /\ cabin_arg = "-"
    /\ cabin_out = Idle
    /\ conv_arg = [amount |-> 0, currency |-> "-"]
    /\ conv_out = Idle
    /\ RoundUnused
    /\ SelUnused
    /\ MergeUnused
    /\ PassUnused
    /\ FilterUnused
    /\ ScoreUnused

\* One call of __proccessCabinDf(flights_df, get_mileage_value(source), cabin).
ProccessCabinDf ==
    /\ mode = "cabin"
    /\ pc = "ready"
    /\ \E cabin \in Range(CABIN) :
         \E r \in {proccessCabinDf(flights_df, get_mileage_value(source).v,
                                  cabin, cache)} :
             /\ cabin_arg' = cabin
             /\ cabin_out' = [err |-> r.err, df |-> r.df]
             /\ cache' = r.cache
    /\ pc' = "partitioned"
    /\ UNCHANGED <<mode, mileage_table, serviceVars, api, cache0, flights_df, source, convVars, roundVars,
                   selVars, mergeVars, passVars, filtVars, scoreVars>>

\* One call of convert_to_system_base(amount, currency).
ConvertToSystemBase ==
    /\ mode = "cabin"
    /\ pc = "ready"
    /\ \E amount \in Amounts, cur \in Currencies :
         \E r \in {convert_to_system_base(cache, amount, cur)} :
             /\ conv_arg' = [amount |-> amount, currency |-> cur]
             /\ conv_out' = [err |-> r.err, v |-> r.v]
             /\ cache' = r.cache
    /\ pc' = "converted"
    /\ UNCHANGED <<mode, mileage_table, serviceVars, api, cache0, cabinVars, roundVars, selVars, mergeVars,
                   passVars, filtVars, scoreVars>>

NextCabin == ProccessCabinDf \/ ConvertToSystemBase

SpecCabin == InitCabin /\ [][NextCabin]_vars

(***************************************************************************)
(* Inputs of the round-trip pass: raw records between Sao Paulo (GRU) and  *)
(* New York (JFK) on days 1..MaxDate, a record with an unknown airport and *)
(* a record flagged available with no seat left.  Economy is offered on    *)
(* every day, business on even days.                                       *)
(***************************************************************************)
FareOn(date) ==
    [cb \in Range(CABIN) |->
        CASE cb = "Y" -> [Available |-> TRUE, RemainingSeats |-> 2,
                          MileageCostRaw |-> 10000 + 1000 * date,
                          TotalTaxes |-> 5000]
          [] cb = "J" /\ date % 2 = 0 ->
                         [Available |-> TRUE, RemainingSeats |-> 1,
                          MileageCostRaw |-> 50000, TotalTaxes |-> 9000]
          [] OTHER -> NoFare]

SoldOut ==
    [cb \in Range(CABIN) |->
        IF cb = "Y"
            THEN [Available |-> TRUE, RemainingSeats |-> 0,
                  MileageCostRaw |-> 9000, TotalTaxes |-> 5000]
            ELSE NoFare]

RawPool ==
    {[OriginAirport |-> rt[1], DestinationAirport |-> rt[2], Date |-> d,
      TaxesCurrency |-> rt[3], fare |-> FareOn(d)] :
        rt \in {<<"GRU", "JFK", "USD">>, <<"JFK", "GRU", "BRL">>}, d \in 1..MaxDate}
    \cup {[OriginAirport |-> "ZZZ", DestinationAirport |-> "JFK", Date |-> 1,
           TaxesCurrency |-> "USD", fare |-> FareOn(1)],
          [OriginAirport |-> "JFK", DestinationAirport |-> "GRU", Date |-> MaxDate,
           TaxesCurrency |-> "USD", fare |-> SoldOut]}

WithID(t, id) == [k \in DOMAIN t \cup {"ID"} |-> IF k = "ID" THEN id ELSE t[k]]

\* Batches of up to MaxBatch records; a record's ID is base + its position.
RawBatches(pool, base, maxlen) ==
    UNION {{[i \in 1..k |-> WithID(f[i], base + i)] : f \in [1..k -> pool]} :
              k \in 0..maxlen}

Windows ==
    {<<<<>>, <<>>>>, <<<<2>>, <<3>>>>, <<<<0>>, <<2>>>>, <<<<1>>, <<>>>>}

Filters == {<<>>, [origin_country |-> "BR"]}

TestCache == [cur \in {"BRL", "EUR"} |-> IF cur = "BRL" THEN 5000 ELSE 2000]

ApiUp == [cur \in Currencies |-> Ok(1000)]

CabinUnused ==
    /\ flights_df = <<>>
    /\ cabin_arg = "-"
    /\ cabin_out = Idle
    /\ conv_arg = [amount |-> 0, currency |-> "-"]
    /\ conv_out = Idle

(***************************************************************************)
(* SpecRound: one pass of process_bulk_availability_object_for_round_trips *)
(***************************************************************************)
InitRound ==
    /\ mode = "round"
    /\ pc = "ready"
    /\ api = ApiUp
    /\ cache = TestCache
    /\ cache0 = cache
    /\ source = "azul"
    /\ mileage_table = mileage_values
    /\ ServiceUnused
    /\ CabinUnused
    /\ bulk_availability \in RawBatches(RawPool, 0, MaxBatch)
    /\ \E w \in Windows : min_return_days = w[1] /\ max_return_days = w[2]
    /\ include_cabins = CABIN
    /\ filter \in Filters
    /\ round_out = Idle
    /\ SelUnused
    /\ MergeUnused
    /\ PassUnused
    /\ FilterUnused
    /\ ScoreUnused

ProcessRoundTrips ==
    /\ mode \in {"round", "pass", "valuation"}
    /\ pc = "ready"
    /\ \E r \in {process_bulk_availability_object_for_round_trips(
                    bulk_availability, source, min_return_days, max_return_days,
                    include_cabins, filter, cache)} :
           /\ round_out' = [err |-> r.err, ret |-> r.ret,
                            built |-> r.trips_by_cabin, parts |-> r.parts]
           /\ cache' = r.cache
    /\ pc' = "processed"
    /\ UNCHANGED <<mode, mileage_table, serviceVars, api, cache0, cabinVars, convVars, bulk_availability,
                   min_return_days, max_return_days, include_cabins, filter,
                   selVars, mergeVars, passVars, filtVars, scoreVars>>

NextRound == ProcessRoundTrips

SpecRound == InitRound /\ [][NextRound]_vars

(***************************************************************************)
(* Inputs of the selector: economy with up to three city pairings (the     *)
(* first with up to MaxCands candidates of combined cost 100, 110 or 111), *)
(* business with one pairing.  A candidate's IDs come from its position.   *)
(***************************************************************************)
Cand(key, pos, oc, rc, dist) ==
    [outbound |-> [ID |-> 2 * pos - 1, origin_city |-> key[1],
                   destination_city |-> key[2], totalCost |-> oc,
                   distance |-> <<dist>>],
     return_  |-> [ID |-> 2 * pos, origin_city |-> key[2],
                   destination_city |-> key[1], totalCost |-> rc,
                   distance |-> <<dist>>]]

KeySPNY == <<"Sao Paulo", "New York">>
KeySPLON == <<"Sao Paulo", "London">>
KeyNYLON == <<"New York", "London">>

CostPairs == {<<60, 40>>, <<50, 60>>, <<70, 41>>}

\* lists of 0..MaxCands candidates whose costs run monotonically, either way
Monotone(f, k) ==
    \/ \A i \in 1..(k - 1) : f[i][1] + f[i][2] <= f[i + 1][1] + f[i + 1][2]
    \/ \A i \in 1..(k - 1) : f[i][1] + f[i][2] >= f[i + 1][1] + f[i + 1][2]

ListsSPNY ==
    UNION {{[i \in 1..k |-> Cand(KeySPNY, i, f[i][1], f[i][2], 100)] :
               f \in {g \in [1..k -> CostPairs] : Monotone(g, k)}} :
           k \in 0..MaxCands}

\* absent (<<>> as a dict entry list), one candidate at 200, or two at 105
OptionsSPLON ==
    {<<>>,
     <<<<KeySPLON, <<Cand(KeySPLON, 11, 120, 80, 100)>>>>>>,
     <<<<KeySPLON, <<Cand(KeySPLON, 11, 55, 50, 100),
                     Cand(KeySPLON, 12, 50, 55, 100)>>>>>>}

OptionsNYLON ==
    {<<>>, <<<<KeyNYLON, <<Cand(KeyNYLON, 21, 100, 50, 200)>>>>>>}

BusinessMap ==
    <<<<KeySPNY, <<Cand(KeySPNY, 31, 300, 200, 100)>>>>>>

SelectorInputs ==
    {Value(<<<<"Y", <<<<KeySPNY, l>>>> \o a \o b>>, <<"J", BusinessMap>>>>) :
        l \in ListsSPNY, a \in OptionsSPLON, b \in OptionsNYLON}

ShufflePerms ==
    {p \in [1..3 -> {KeySPNY, KeySPLON, KeyNYLON}] :
        \A i, j \in 1..3 : i # j => p[i] # p[j]}

(***************************************************************************)
(* SpecSelect: find_cheapest_for_round_trips, run twice on one input.      *)
(***************************************************************************)
InitSelect ==
    /\ mode = "select"
    /\ pc = "ready"
    /\ api = ApiUp
    /\ cache = TestCache
    /\ cache0 = cache
    /\ source = "azul"
    /\ mileage_table = mileage_values
    /\ ServiceUnused
    /\ CabinUnused
    /\ RoundUnused
    /\ sel_in \in SelectorInputs
    /\ sel_n \in 0..MaxN
    /\ sel_runs = <<>>
    /\ MergeUnused
    /\ PassUnused
    /\ FilterUnused
    /\ ScoreUnused

FindCheapestForRoundTrips ==
    /\ mode = "select"
    /\ Len(sel_runs) < 2
    /\ \E perm \in ShufflePerms :
         \E r \in {find_cheapest_for_round_trips(sel_in, sel_n, perm)} :
             sel_runs' = Append(sel_runs, [err |-> r.err, ret |-> r.ret])
    /\ sel_in' = InputAfterCall(sel_in)
    /\ pc' = "selected"
    /\ UNCHANGED <<mode, mileage_table, serviceVars, cashVars, cabinVars, convVars, roundVars, sel_n,
                   mergeVars, passVars, filtVars, scoreVars>>

NextSelect == FindCheapestForRoundTrips

SpecSelect == InitSelect /\ [][NextSelect]_vars

(***************************************************************************)
(* src/logic/filter.py: get_best_round_trips_from_multiple_sources.        *)
(***************************************************************************)
ExtendList_replace(existing, round_trips_list) == round_trips_list

\* trips_by_cabin[cabin][city_pairings].extend(round_trips_list)
ExtendList(existing, round_trips_list) == existing \o round_trips_list

\* the loop over one cabin's pairings (filter.py:188-192)
RECURSIVE MergePairings(_, _)
MergePairings(acc, round_trips_by_city_pairings) ==
    IF round_trips_by_city_pairings = <<>> THEN acc
    ELSE LET e == Head(round_trips_by_city_pairings)
             existing == IF HasKey(acc, e[1]) THEN DictGet(acc, e[1]) ELSE <<>>
         IN  MergePairings(DictSet(acc, e[1], ExtendList(existing, e[2])),
                           Tail(round_trips_by_city_pairings))

\* the loop over one source's cabins (filter.py:184-192)
RECURSIVE MergeCabins(_, _)
MergeCabins(acc, tripsByCabin) ==
    IF tripsByCabin = <<>> THEN acc
    ELSE LET e == Head(tripsByCabin)
             existing == IF HasKey(acc, e[1]) THEN DictGet(acc, e[1]) ELSE <<>>
         IN  MergeCabins(DictSet(acc, e[1], MergePairings(existing, e[2])),
                         Tail(tripsByCabin))

\* all(len(cabin_data.values()) == 0 for cabin_data in trips_by_cabin.values())
AllCabinsEmpty(by_cabin) == \A i \in DOMAIN by_cabin : by_cabin[i][2] = <<>>

\* include_cabins = cabins if cabins else [cabin for cabin in CABIN]
CabinsOrAll(cabins) == IF cabins = <<>> THEN CABIN ELSE cabins

(***************************************************************************)
(* Inputs of the merge: each source's batch is a choice of at most         *)
(* MaxSrcBatch of four odd-day economy records between Sao Paulo and New   *)
(* York or London; IDs are unique across the sources.                      *)
(***************************************************************************)
MergePool ==
    <<[OriginAirport |-> "GRU", DestinationAirport |-> "JFK", Date |-> 1,
       TaxesCurrency |-> "USD", fare |-> FareOn(1)],
      [OriginAirport |-> "JFK", DestinationAirport |-> "GRU", Date |-> 3,
       TaxesCurrency |-> "BRL", fare |-> FareOn(3)],
      [OriginAirport |-> "GRU", DestinationAirport |-> "LHR", Date |-> 1,
       TaxesCurrency |-> "USD", fare |-> FareOn(1)],
      [OriginAirport |-> "LHR", DestinationAirport |-> "GRU", Date |-> 3,
       TaxesCurrency |-> "USD", fare |-> FareOn(3)]>>

\* the records of MergePool at the positions in picks, in pool order
RECURSIVE PickBatch(_, _, _)
PickBatch(picks, base, k) ==
    IF k > Len(MergePool) THEN <<>>
    ELSE (IF k \in picks THEN <<WithID(MergePool[k], base + k)>> ELSE <<>>)
         \o PickBatch(picks, base, k + 1)

SourceBatches(base) ==
    {PickBatch(picks, base, 1) :
        picks \in {q \in SUBSET DOMAIN MergePool : Cardinality(q) <= MaxSrcBatch}}

SourceMaps ==
    {<<>>}
    \cup {<<<<"azul", a>>>> : a \in SourceBatches(0)}
    \cup {<<<<"azul", a>>, <<"smiles", b>>>> :
             a \in SourceBatches(0), b \in SourceBatches(10)}
    \cup {<<<<"smiles", b>>, <<"azul", a>>>> :
             a \in SourceBatches(0), b \in SourceBatches(10)}

(***************************************************************************)
(* SpecMerge: get_best_round_trips_from_multiple_sources, one loop         *)
(* iteration per step.                                                     *)
(***************************************************************************)
InitMerge ==
    /\ mode = "merge"
    /\ pc = "start"
    /\ api = ApiUp
    /\ cache = TestCache
    /\ cache0 = cache
    /\ source = "-"
    /\ mileage_table = mileage_values
    /\ ServiceUnused
    /\ CabinUnused
    /\ bulk_availability = <<>>
    /\ min_return_days = <<>>
    /\ max_return_days = <<>>
    /\ include_cabins \in {<<>>, <<"Y">>}
    /\ filter = <<>>
    /\ round_out = Idle
    /\ SelUnused
    /\ bulk_availability_by_source \in SourceMaps
    /\ n_arg \in 1..MaxN
    /\ src_i = 0
    /\ merged_trips = <<>>
    /\ source_maps = <<>>
    /\ merge_out = Idle
    /\ PassUnused
    /\ FilterUnused
    /\ ScoreUnused

\* filter.py:158-163
MergeStart ==
    /\ mode = "merge"
    /\ pc = "start"
    /\ IF bulk_availability_by_source = <<>>
           THEN /\ merge_out' = [err |-> "ValueError", ret |-> NoneResult]
                /\ pc' = "done"
                /\ src_i' = src_i
           ELSE /\ merge_out' = merge_out
                /\ pc' = "loop"
                /\ src_i' = 1
    /\ UNCHANGED <<mode, mileage_table, serviceVars, cashVars, cabinVars, convVars, roundVars, selVars,
                   bulk_availability_by_source, n_arg, merged_trips, source_maps,
                   passVars, filtVars, scoreVars>>

\* one iteration of the loop over the sources (filter.py:164-192)
MergeSource ==
    /\ mode = "merge"
    /\ pc = "loop"
    /\ src_i <= Len(bulk_availability_by_source)
    /\ \E batch \in {bulk_availability_by_source[src_i][2]},
          r \in {process_bulk_availability_object_for_round_trips(
                    bulk_availability_by_source[src_i][2],
                    bulk_availability_by_source[src_i][1],
                    min_return_days, max_return_days,
                    CabinsOrAll(include_cabins), filter, cache)} :
           IF batch = <<>>
               THEN UNCHANGED <<cache, merged_trips, source_maps, merge_out>>
                    /\ src_i' = src_i + 1 /\ pc' = pc
           ELSE IF r.err # "ok"
               THEN /\ merge_out' = [err |-> r.err, ret |-> NoneResult]
                    /\ cache' = r.cache
                    /\ pc' = "done"
                    /\ UNCHANGED <<src_i, merged_trips, source_maps>>
           ELSE IF Falsy(r.ret)
               THEN /\ cache' = r.cache
                    /\ src_i' = src_i + 1 /\ pc' = pc
                    /\ UNCHANGED <<merged_trips, source_maps, merge_out>>
           ELSE /\ cache' = r.cache
                /\ merged_trips' = MergeCabins(merged_trips, r.ret.v)
                /\ source_maps' = Append(source_maps, r.ret.v)
                /\ src_i' = src_i + 1 /\ pc' = pc
                /\ UNCHANGED merge_out
    /\ UNCHANGED <<mode, mileage_table, serviceVars, api, cache0, cabinVars, convVars, roundVars, selVars,
                   bulk_availability_by_source, n_arg, passVars, filtVars,
                   scoreVars>>

\* after the loop (filter.py:194-214); the shuffle inside the selector
\* draws perm
MergeSelect ==
    /\ mode = "merge"
    /\ pc = "loop"
    /\ src_i > Len(bulk_availability_by_source)
    /\ \E perm \in ShufflePerms :
         \E top \in {find_cheapest_for_round_trips(Value(merged_trips), n_arg, perm)} :
             merge_out' =
                 IF merged_trips = <<>> \/ AllCabinsEmpty(merged_trips)
                     THEN [err |-> "ok", ret |-> NoneResult]
                 ELSE IF top.err # "ok" THEN [err |-> top.err, ret |-> NoneResult]
                 ELSE IF Falsy(top.ret) THEN [err |-> "ok", ret |-> NoneResult]
                 ELSE [err |-> "ok", ret |-> top.ret]
    /\ pc' = "done"
    /\ UNCHANGED <<mode, mileage_table, serviceVars, cashVars, cabinVars, convVars, roundVars, selVars,
                   bulk_availability_by_source, n_arg, src_i, merged_trips,
                   source_maps, passVars, filtVars, scoreVars>>

NextMerge == MergeStart \/ MergeSource \/ MergeSelect

SpecMerge == InitMerge /\ [][NextMerge]_vars

(***************************************************************************)
(* Inputs of the passes: records from Sao Paulo (GRU, CGH) to New York     *)
(* (JFK) and back, two of them with the same fare, records from and to     *)
(* Macapa (MCP, no coordinates), a record with an unknown airport and a    *)
(* record with no seat left.                                               *)
(***************************************************************************)
MaxPassBatch == 3     \* records of a raw batch handed to a pass

PassRecord(o, d, date, cur, fare) ==
    [OriginAirport |-> o, DestinationAirport |-> d, Date |-> date,
     TaxesCurrency |-> cur, fare |-> fare]

PassPool ==
    {PassRecord("GRU", "JFK", 1, "USD", FareOn(1)),
     PassRecord("CGH", "JFK", 1, "USD", FareOn(1)),
     PassRecord("GRU", "JFK", 2, "USD", FareOn(2)),
     PassRecord("JFK", "GRU", 3, "BRL", FareOn(3)),
     PassRecord("ZZZ", "JFK", 1, "USD", FareOn(1)),
     PassRecord("MCP", "JFK", 1, "USD", FareOn(1)),
     PassRecord("JFK", "MCP", 3, "USD", FareOn(3)),
     PassRecord("JFK", "GRU", 4, "USD", SoldOut)}

PassWindows == {<<<<>>, <<>>>>, <<<<1>>, <<1>>>>}

PassFilters ==
    {<<>>,
     [origin_country |-> "BR"],
     [max_cost |-> 21000],
     [min_distance |-> 5000],
     [max_distance |-> 5000],
     [exclude_origin_cities |-> {"Macapa"}]}

\* the city pairings a pass can build, and the orders a shuffle is drawn from
PassKeys ==
    <<<<"Sao Paulo", "New York">>, <<"New York", "Sao Paulo">>,
      <<"Macapa", "New York">>, <<"New York", "Macapa">>>>

PassPerms == {PassKeys, Reverse(PassKeys)}

(***************************************************************************)
(* SpecPass: the normalizer, or one pass (single-trip or round-trip)       *)
(* followed by the selection of its mode.                                  *)
(***************************************************************************)
InitPass ==
    /\ mode = "pass"
    /\ pc = "ready"
    /\ api = ApiUp
    /\ cache = TestCache
    /\ cache0 = cache
    /\ source = "azul"
    /\ mileage_table = mileage_values
    /\ ServiceUnused
    /\ CabinUnused
    /\ bulk_availability \in RawBatches(PassPool, 0, MaxPassBatch)
    /\ \E w \in PassWindows : min_return_days = w[1] /\ max_return_days = w[2]
    /\ include_cabins = CABIN
    /\ filter \in PassFilters
    /\ round_out = Idle
    /\ SelUnused
    /\ MergeUnused
    /\ PassUnused
    /\ FilterUnused
    /\ ScoreUnused

\* One call of __proccess_BulkAvailability(bulk_availability).
ProccessBulkAvailability ==
    /\ mode = "pass"
    /\ pc = "ready"
    /\ norm_out' = proccess_BulkAvailability(bulk_availability)
    /\ pc' = "normalized"
    /\ UNCHANGED <<mode, mileage_table, serviceVars, cashVars, source, cabinVars, convVars, roundVars, selVars,
                   mergeVars, single_out, pick_n, pick_out, filtVars, scoreVars>>

\* One call of process_bulk_availability_object_for_single_trips.
ProcessSingleTrips ==
    /\ mode \in {"pass", "valuation"}
    /\ pc = "ready"
    /\ \E r \in {process_bulk_availability_object_for_single_trips(
                    bulk_availability, source, include_cabins, filter, cache)} :
           /\ single_out' = [err |-> r.err, ret |-> r.ret, parts |-> r.parts]
           /\ cache' = r.cache
    /\ pc' = "single"
    /\ UNCHANGED <<mode, mileage_table, serviceVars, api, cache0, source, cabinVars, convVars, roundVars,
                   selVars, mergeVars, norm_out, pick_n, pick_out, filtVars,
                   scoreVars>>

\* find_cheapest_for_single_trips on what the single-trip pass returned
FindCheapestForSingleTrips ==
    /\ mode = "pass"
    /\ pc = "single"
    /\ single_out.err = "ok"
    /\ \E n \in 1..MaxN :
         \E r \in {find_cheapest_for_single_trips(single_out.ret, n)} :
             /\ pick_n' = n
             /\ pick_out' = [err |-> r.err, ret |-> r.ret]
    /\ pc' = "picked_single"
    /\ UNCHANGED <<mode, mileage_table, serviceVars, cashVars, source, cabinVars, convVars, roundVars, selVars,
                   mergeVars, norm_out, single_out, filtVars, scoreVars>>

\* find_cheapest_for_round_trips on what the round-trip pass returned
FindCheapestAfterRoundPass ==
    /\ mode = "pass"
    /\ pc = "processed"
    /\ round_out.err = "ok"
    /\ \E n \in 1..MaxN, perm \in PassPerms :
         \E r \in {find_cheapest_for_round_trips(round_out.ret, n, perm)} :
             /\ pick_n' = n
             /\ pick_out' = [err |-> r.err, ret |-> r.ret]
    /\ round_out' = [round_out EXCEPT !.ret = InputAfterCall(round_out.ret)]
    /\ pc' = "picked_round"
    /\ UNCHANGED <<mode, mileage_table, serviceVars, cashVars, source, cabinVars, convVars,
                   bulk_availability, min_return_days, max_return_days,
                   include_cabins, filter, selVars,
                   mergeVars, norm_out, single_out, filtVars, scoreVars>>

NextPass ==
    \/ ProccessBulkAvailability
    \/ ProcessSingleTrips
    \/ ProcessRoundTrips
    \/ FindCheapestForSingleTrips
    \/ FindCheapestAfterRoundPass

SpecPass == InitPass /\ [][NextPass]_vars

(***************************************************************************)
(* Inputs of the filter predicate: rows with or without each of the four   *)
(* place fields, an optional return row, and every dict made of the        *)
(* criteria below.                                                         *)
(***************************************************************************)
PlaceFields ==
    {"origin_country", "destination_country", "origin_city", "destination_city"}

\* a row with the place fields given; "-" leaves the field out
FilterRow(oc, dc, ocity, dcity) ==
    LET given == [k \in PlaceFields |->
                     CASE k = "origin_country" -> oc
                       [] k = "destination_country" -> dc
                       [] k = "origin_city" -> ocity
                       [] OTHER -> dcity]
    IN  [k \in {f \in PlaceFields : given[f] # "-"} \cup {"TotalCost", "Distance"} |->
            CASE k = "TotalCost" -> 20400
              [] k = "Distance" -> <<9200>>
              [] OTHER -> given[k]]

FilterRows ==
    {FilterRow(oc, dc, ocity, dcity) :
        oc \in {"-", "BR", "US"}, dc \in {"-", "US", "BR"},
        ocity \in {"-", "Sao Paulo", "New York"},
        dcity \in {"-", "New York", "Sao Paulo"}}

ReturnRows == {<<>>, <<FilterRow("US", "BR", "New York", "Sao Paulo")>>}

Criteria ==
    [origin_country |-> "BR", destination_country |-> "US",
     origin_cities |-> {"Sao Paulo"}, destination_cities |-> {"New York"},
     exclude_origin_cities |-> {"New York"},
     exclude_destination_cities |-> {"Sao Paulo"},
     max_cost |-> 30000]

FilterDicts == {[k \in keys |-> Criteria[k]] : keys \in SUBSET DOMAIN Criteria}

OthersUnused ==
    /\ CabinUnused
    /\ RoundUnused
    /\ SelUnused
    /\ MergeUnused
    /\ PassUnused

(***************************************************************************)
(* SpecFilter: one call of __filter_trip.                                  *)
(***************************************************************************)
InitFilter ==
    /\ mode = "filter"
    /\ pc = "ready"
    /\ api = ApiUp
    /\ cache = TestCache
    /\ cache0 = cache
    /\ source = "azul"
    /\ mileage_table = mileage_values
    /\ ServiceUnused
    /\ OthersUnused
    /\ filt_in \in [outbound_row : FilterRows, filters : FilterDicts,
                    return_row : ReturnRows]
    /\ filt_out = Idle
    /\ ScoreUnused

FilterTrip ==
    /\ mode = "filter"
    /\ pc = "ready"
    /\ filt_out' = [err |-> "ok",
                    v |-> filter_trip(filt_in.outbound_row, filt_in.filters,
                                      filt_in.return_row)]
    /\ pc' = "filtered"
    /\ UNCHANGED <<mode, mileage_table, serviceVars, cashVars, source, cabinVars, convVars, roundVars, selVars,
                   mergeVars, passVars, filt_in, scoreVars>>

NextFilter == FilterTrip

SpecFilter == InitFilter /\ [][NextFilter]_vars

(***************************************************************************)
(* Inputs of the scoring function: up to MaxTrips trips, each with a cost  *)
(* of zero or more and a distance that is None, NaN, zero or positive.     *)
(***************************************************************************)
MaxTrips == 2         \* trips passed to one call of __score

ScoreTrips ==
    [ID : {1}, origin_city : {"Sao Paulo"}, destination_city : {"New York"},
     totalCost : {0, 100, 250}, distance : {<<>>, NaN, <<0>>, <<300>>, <<700>>}]

ScoreArguments == UNION {[1..k -> ScoreTrips] : k \in 0..MaxTrips}

(***************************************************************************)
(* SpecScore: one call of __score.                                         *)
(***************************************************************************)
InitScore ==
    /\ mode = "score"
    /\ pc = "ready"
    /\ api = ApiUp
    /\ cache = TestCache
    /\ cache0 = cache
    /\ source = "azul"
    /\ mileage_table = mileage_values
    /\ ServiceUnused
    /\ OthersUnused
    /\ FilterUnused
    /\ score_in \in ScoreArguments
    /\ score_out = Idle

Score ==
    /\ mode = "score"
    /\ pc = "ready"
    /\ score_out' = score(score_in)
    /\ pc' = "scored"
    /\ UNCHANGED <<mode, mileage_table, serviceVars, cashVars, source, cabinVars, convVars, roundVars, selVars,
                   mergeVars, passVars, filtVars, score_in>>

NextScore == Score

SpecScore == InitScore /\ [][NextScore]_vars

(***************************************************************************)
(* Inputs of a pass whose valuations may be missing: records with taxes in *)
(* USD, BRL or EUR, a rate service that may fail, a cache that may lack a  *)
(* currency and a mileage table that may lack the source's program.        *)
(***************************************************************************)
MaxValBatch == 2      \* records of a raw batch handed to such a pass

ValPool ==
    {PassRecord("GRU", "JFK", 1, cur, FareOn(1)) : cur \in Currencies}
    \cup {PassRecord("JFK", "GRU", 3, cur, FareOn(3)) : cur \in {"USD", "BRL"}}
    \cup {PassRecord("ZZZ", "JFK", 1, "BRL", FareOn(1)),
          PassRecord("JFK", "GRU", 3, "BRL", SoldOut)}

ValCaches == InitialCaches \cup {[cur \in {"EUR"} |-> 2000]}

\* the table of load(..., "test"), and a sheet without a row for qantas
MileageTables ==
    {mileage_values, [p \in {"azul", "smiles"} |-> mileage_values[p]]}

(***************************************************************************)
(* SpecValuation: one pass, single-trip or round-trip, over such inputs.   *)
(***************************************************************************)
InitValuation ==
    /\ mode = "valuation"
    /\ pc = "ready"
    /\ api \in ApiAnswers
    /\ cache \in ValCaches
    /\ cache0 = cache
    /\ source \in {"azul", "qantas"}
    /\ mileage_table \in MileageTables
    /\ ServiceUnused
    /\ CabinUnused
    /\ bulk_availability \in RawBatches(ValPool, 0, MaxValBatch)
    /\ min_return_days = <<>>
    /\ max_return_days = <<>>
    /\ include_cabins = CABIN
    /\ filter = <<>>
    /\ round_out = Idle
    /\ SelUnused
    /\ MergeUnused
    /\ PassUnused
    /\ FilterUnused
    /\ ScoreUnused

NextValuation == ProcessRoundTrips \/ ProcessSingleTrips

SpecValuation == InitValuation /\ [][NextValuation]_vars

(***************************************************************************)
(* Claims about the cost basis, the currency handler and the partitioner.  *)
(***************************************************************************)
\* The rate convert_to_system_base must use for a currency: the one cached
\* when the behaviour started, else int(100 * the rate the service answers).
ScaledRate(cur) ==
    IF cur \in DOMAIN cache0
        THEN cache0[cur]
        ELSE (api[cur].conversion_rate[1] * 100) \div 1000

RateKnown(cur) ==
    \/ cur \in DOMAIN cache0
    \/ api[cur].status_code = 200 /\ api[cur].conversion_rate # <<>>

ConvertedTaxes(row, cabin) ==
    IF row.TaxesCurrency = target_currency
        THEN row.fare[cabin].TotalTaxes
        ELSE (row.fare[cabin].TotalTaxes * ScaledRate(row.TaxesCurrency)) \div 100

Partitioned == mode = "cabin" /\ pc = "partitioned" /\ cabin_out.err = "ok"

\* C1: every record the cabin partitioner retains for cabin C from source S
\* has TotalCost = floor(rawMileageCost_C * mileageValue(S) / 1000) plus the
\* converted taxes of cabin C, in exact integer arithmetic.
C1_TotalCostFormula ==
    Partitioned =>
        \A i \in DOMAIN cabin_out.df :
            LET row == cabin_out.df[i] IN
            row.TotalCost =
                (row.fare[cabin_arg].MileageCostRaw * mileage_values[source]) \div 1000
                    + ConvertedTaxes(row, cabin_arg)

\* A retained record whose mileage cost is no multiple of 1000 points' worth
\* and whose taxes are in a foreign currency.
C1_Witness ==
    /\ Partitioned
    /\ \E i \in DOMAIN cabin_out.df :
         LET row == cabin_out.df[i] IN
         /\ row.TaxesCurrency # target_currency
         /\ (row.fare[cabin_arg].MileageCostRaw * mileage_values[source]) % 1000 # 0
         /\ (row.fare[cabin_arg].TotalTaxes * ScaledRate(row.TaxesCurrency)) % 100 # 0

\* C2: convert_to_system_base(amount, currency) returns amount unchanged when
\* currency is the base currency, and otherwise floor(amount * rate / 100),
\* rate being the integer conversion factor scaled by 100 of that currency.
C2_ConvertContract ==
    (mode = "cabin" /\ pc = "converted") =>
        IF conv_arg.currency = target_currency
            THEN conv_out = [err |-> "ok", v |-> conv_arg.amount] /\ cache = cache0
            ELSE IF RateKnown(conv_arg.currency)
                     THEN conv_out = [err |-> "ok",
                              v |-> (conv_arg.amount * ScaledRate(conv_arg.currency)) \div 100]
                     ELSE conv_out.err # "ok"

\* A conversion from a foreign currency whose rate had to be fetched and
\* whose product is no multiple of 100.
C2_Witness ==
    /\ mode = "cabin" /\ pc = "converted"
    /\ conv_arg.currency # target_currency
    /\ conv_arg.currency \notin DOMAIN cache0
    /\ conv_out.err = "ok"
    /\ (conv_arg.amount * ScaledRate(conv_arg.currency)) % 100 # 0

IdsOf(df) == [i \in DOMAIN df |-> df[i].ID]

\* C3 (partitioner): the records retained for cabin C are exactly the
\* normalized records whose C-availability flag is true and whose
\* C-remaining-seat count is above zero, in their order.
C3_PartitionExact ==
    Partitioned =>
        IdsOf(cabin_out.df) =
            IdsOf(SelectSeq(flights_df, LAMBDA row :
                      row.fare[cabin_arg].Available /\ row.fare[cabin_arg].RemainingSeats > 0))

\* A partition that kept a record and dropped one flagged available with
\* no seat left.
C3_Witness ==
    /\ Partitioned
    /\ cabin_out.df # <<>>
    /\ \E i \in DOMAIN flights_df :
         /\ flights_df[i].fare[cabin_arg].Available
         /\ flights_df[i].fare[cabin_arg].RemainingSeats = 0

(***************************************************************************)
(* Claims about the round-trip pairing engine.                             *)
(***************************************************************************)
\* The travel date of the record of the batch a summary trip was made from.
DateOfTrip(trip) ==
    bulk_availability[CHOOSE i \in DOMAIN bulk_availability :
                          bulk_availability[i].ID = trip.ID].Date

\* All candidates of a cabin -> city pairing -> list map.
CandidatesOf(by_cabin) ==
    UNION {UNION {Range(by_cabin[i][2][j][2]) : j \in DOMAIN by_cabin[i][2]} :
              i \in DOMAIN by_cabin}

RoundDone == mode = "round" /\ pc = "processed"

\* C4: in every round-trip candidate the pass produces, the return record's
\* travel date is strictly later than the outbound record's.
C4_ReturnAfterOutbound ==
    RoundDone =>
        \A c \in CandidatesOf(round_out.built) \cup CandidatesOf(round_out.ret.v) :
            DateOfTrip(c.return_) > DateOfTrip(c.outbound)

\* A pass that returned a candidate although the batch also held a same-day
\* pair of opposite directions.
C4_Witness ==
    /\ RoundDone
    /\ CandidatesOf(round_out.ret.v) # {}
    /\ \E i, j \in DOMAIN bulk_availability :
         /\ bulk_availability[i].OriginAirport = bulk_availability[j].DestinationAirport
         /\ bulk_availability[j].OriginAirport = bulk_availability[i].DestinationAirport
         /\ bulk_availability[i].Date = bulk_availability[j].Date
         /\ bulk_availability[i].OriginAirport = "GRU"

\* Pairs of rows of one cabin frame with opposite city directions.
IsCandidate(by_cabin, cabin, o, r) ==
    /\ HasKey(by_cabin, cabin)
    /\ HasKey(DictGet(by_cabin, cabin), <<o.origin_city, o.destination_city>>)
    /\ \E c \in Range(DictGet(DictGet(by_cabin, cabin),
                              <<o.origin_city, o.destination_city>>)) :
           c.outbound.ID = o.ID /\ c.return_.ID = r.ID

\* C5 (as claimed): with both bounds supplied, a pair of one cabin and of
\* opposite directions that passes the date-order check and the filter is
\* a candidate if and only if min <= gap <= max.
C5_WindowIffSupplied ==
    (RoundDone /\ round_out.err = "ok"
        /\ min_return_days # <<>> /\ max_return_days # <<>>) =>
        \A p \in DOMAIN round_out.parts :
            LET cabin == round_out.parts[p][1]
                df == round_out.parts[p][2]
            IN  \A i, j \in DOMAIN df :
                    (/\ df[i].origin_city = df[j].destination_city
                     /\ df[i].destination_city = df[j].origin_city
                     /\ df[j].Date > df[i].Date
                     /\ (filter # <<>> => filter_trip(df[i], filter, <<df[j]>>)))
                    => (IsCandidate(round_out.built, cabin, df[i], df[j])
                            <=> (/\ min_return_days[1] <= df[j].Date - df[i].Date
                                 /\ df[j].Date - df[i].Date <= max_return_days[1]))


(***************************************************************************)
(* Claims about the round-trip selector (SpecSelect).                      *)
(***************************************************************************)
SelectedRuns ==
    {r \in DOMAIN sel_runs : sel_runs[r].err = "ok" /\ ~sel_runs[r].ret.none}

\* the candidate list the input holds for a cabin and a city pairing
InputList(cabin, key) == DictGet(DictGet(sel_in.v, cabin), key)

MinCost(list) ==
    CHOOSE m \in {CombinedCost(list[i]) : i \in DOMAIN list} :
        \A i \in DOMAIN list : m <= CombinedCost(list[i])

\* fewer than five candidates of the list are strictly cheaper than trip
AmongFiveCheapest(trip, list) ==
    Cardinality({i \in DOMAIN list :
                    CombinedCost(list[i]) < CombinedCost(trip)}) < 5

\* C6: every candidate list in the output of find_cheapest_for_round_trips
\* holds 1 to 5 distinct candidates of the pairing's input list, each among
\* the five cheapest of that list by outbound+return totalCost and each with
\* combined cost at most 1.1 times the cheapest candidate of the pairing.
C6_BandAndTopFive ==
    mode = "select" =>
        \A r \in SelectedRuns :
            \A ce \in Range(sel_runs[r].ret.v) :
                /\ HasKey(sel_in.v, ce[1])
                /\ \A pe \in Range(ce[2]) :
                     /\ HasKey(DictGet(sel_in.v, ce[1]), pe[1])
                     /\ LET out == pe[2]
                            inp == InputList(ce[1], pe[1])
                        IN  /\ Len(out) >= 1
                            /\ Len(out) <= 5
                            /\ \A i, j \in DOMAIN out : i # j => out[i] # out[j]
                            /\ \A i \in DOMAIN out :
                                 /\ out[i] \in Range(inp)
                                 /\ AmongFiveCheapest(out[i], inp)
                                 /\ 10 * CombinedCost(out[i]) <= 11 * MinCost(inp)

\* a list of more than five candidates lost one to the cut at five and one
\* to the band, and kept one lying exactly on the band
C6_Witness ==
    /\ mode = "select"
    /\ \E r \in SelectedRuns :
         \E ce \in Range(sel_runs[r].ret.v) :
            \E pe \in Range(ce[2]) :
               /\ Len(InputList(ce[1], pe[1])) > 5
               /\ Len(pe[2]) = 4
               /\ \E i \in DOMAIN pe[2] :
                    10 * CombinedCost(pe[2][i]) = 11 * MinCost(InputList(ce[1], pe[1]))

\* the surviving candidates of an input list
Surviving(list) ==
    SelectSeq(CheapestOfList(list),
              LAMBDA t : 10 * CombinedCost(t) <= 11 * MinCost(list))

LegCost(list) ==
    SumCost([i \in DOMAIN list |-> list[i].outbound]
            \o [i \in DOMAIN list |-> list[i].return_])

LegDistance(list) ==
    SumDistance([i \in DOMAIN list |-> list[i].outbound]
                \o [i \in DOMAIN list |-> list[i].return_])

\* averageScore(a) < averageScore(b), where averageScore(l) is
\* (cost / (distance * 0.7)) / count over the legs of l
AverageScoreLess(a, b) ==
    LegCost(a) * LegDistance(b) * Len(b) < LegCost(b) * LegDistance(a) * Len(a)

SurvivingKeys(cabin) ==
    {e[1] : e \in {x \in Range(DictGet(sel_in.v, cabin)) : x[2] # <<>>}}

Min(a, b) == IF a <= b THEN a ELSE b

C8_ShuffleOnlyReorders ==
    (mode = "select" /\ Len(sel_runs) = 2) =>
        /\ sel_runs[1].err = sel_runs[2].err
        /\ sel_runs[1].ret.none = sel_runs[2].ret.none
        /\ DictKeys(sel_runs[1].ret.v) = DictKeys(sel_runs[2].ret.v)
        /\ \A i \in DOMAIN sel_runs[1].ret.v :
             Range(sel_runs[1].ret.v[i][2]) = Range(sel_runs[2].ret.v[i][2])

\* two runs that returned the same two pairings in different orders
C8_Witness ==
    /\ mode = "select"
    /\ Len(sel_runs) = 2
    /\ SelectedRuns = {1, 2}
    /\ \E i \in DOMAIN sel_runs[1].ret.v :
         /\ Len(sel_runs[1].ret.v[i][2]) = 2
         /\ Cardinality(SurvivingKeys(sel_runs[1].ret.v[i][1])) > 2
         /\ sel_runs[1].ret.v[i][2] # sel_runs[2].ret.v[i][2]

(***************************************************************************)
(* Claims about the multi-source entry point (SpecMerge).                  *)
(***************************************************************************)
MergeDone == mode = "merge" /\ pc = "done"

\* the loop over the sources ran to its end
LoopFinished == MergeDone /\ src_i > Len(bulk_availability_by_source)

\* the candidates the source maps hold for a cabin and a pairing, source
\* after source
RECURSIVE ConcatAcross(_, _, _)
ConcatAcross(maps, cabin, key) ==
    IF maps = <<>> THEN <<>>
    ELSE (IF HasKey(maps[1], cabin) /\ HasKey(DictGet(maps[1], cabin), key)
              THEN DictGet(DictGet(maps[1], cabin), key)
              ELSE <<>>)
         \o ConcatAcross(Tail(maps), cabin, key)

UnionCabins ==
    UNION {Range(DictKeys(source_maps[k])) : k \in DOMAIN source_maps}

UnionKeys(cabin) ==
    UNION {Range(DictKeys(DictGet(source_maps[k], cabin))) :
              k \in {j \in DOMAIN source_maps : HasKey(source_maps[j], cabin)}}

\* C9: the map handed to the selector is the union of the sources' maps,
\* the lists of one (cabin, city pairing) concatenated in source order, and
\* get_best_round_trips_from_multiple_sources returns what the selector
\* returns on that union.
C9_SelectorOverUnion ==
    LoopFinished =>
        /\ Range(DictKeys(merged_trips)) = UnionCabins
        /\ Len(merged_trips) = Cardinality(UnionCabins)
        /\ \A cabin \in UnionCabins :
             /\ Range(DictKeys(DictGet(merged_trips, cabin))) = UnionKeys(cabin)
             /\ Len(DictGet(merged_trips, cabin)) = Cardinality(UnionKeys(cabin))
             /\ \A key \in UnionKeys(cabin) :
                  DictGet(DictGet(merged_trips, cabin), key)
                      = ConcatAcross(source_maps, cabin, key)
        /\ \E perm \in ShufflePerms :
             \E top \in {find_cheapest_for_round_trips(Value(merged_trips), n_arg, perm)} :
                 merge_out.err = top.err /\ merge_out.ret = top.ret

\* two sources offered the same pairing and the list returned for it holds
\* a candidate of each
C9_Witness ==
    /\ LoopFinished
    /\ Len(source_maps) = 2
    /\ merge_out.err = "ok"
    /\ ~merge_out.ret.none
    /\ \E ce \in Range(merge_out.ret.v) :
         \E pe \in Range(ce[2]) :
            /\ HasKey(source_maps[1], ce[1])
            /\ HasKey(source_maps[2], ce[1])
            /\ HasKey(DictGet(source_maps[1], ce[1]), pe[1])
            /\ HasKey(DictGet(source_maps[2], ce[1]), pe[1])
            /\ \E i, j \in DOMAIN pe[2] :
                 /\ pe[2][i] \in Range(DictGet(DictGet(source_maps[1], ce[1]), pe[1]))
                 /\ pe[2][j] \in Range(DictGet(DictGet(source_maps[2], ce[1]), pe[1]))

\* C10: when every source supplies an empty batch (an empty source map
\* included), get_best_round_trips_from_multiple_sources ends with an error
\* and not with a returned value.
C10_AllEmptyFails ==
    (/\ MergeDone
     /\ \A i \in DOMAIN bulk_availability_by_source :
            bulk_availability_by_source[i][2] = <<>>)
        => merge_out.err # "ok"

(***************************************************************************)
(* Claims about the passes, the normalizer and the single-trip mode.       *)
(***************************************************************************)
RoundPassDone == mode = "pass" /\ round_out.err # "idle"

SinglePassDone == mode = "pass" /\ single_out.err # "idle"

\* a record one of whose airports is in no table
Unresolvable(rec) ==
    \/ rec.OriginAirport \notin DOMAIN IATA_CITY
    \/ rec.DestinationAirport \notin DOMAIN IATA_CITY

\* a record no cabin of which is flagged available with a seat left
NoFareLeft(rec) ==
    \A cb \in Range(CABIN) :
        ~(rec.fare[cb].Available = TRUE /\ rec.fare[cb].RemainingSeats > 0)

\* no two records of the batch fly opposite directions, the second later
NoOppositePair ==
    \A i, j \in DOMAIN bulk_availability :
        ~(/\ ~Unresolvable(bulk_availability[i])
          /\ ~Unresolvable(bulk_availability[j])
          /\ IATA_CITY[bulk_availability[i].OriginAirport]
                 = IATA_CITY[bulk_availability[j].DestinationAirport]
          /\ IATA_CITY[bulk_availability[j].OriginAirport]
                 = IATA_CITY[bulk_availability[i].DestinationAirport]
          /\ bulk_availability[j].Date > bulk_availability[i].Date)

\* the batch is empty, or wholly unresolvable, or without any fare left
DataAbsent ==
    \/ bulk_availability = <<>>
    \/ \A i \in DOMAIN bulk_availability : Unresolvable(bulk_availability[i])
    \/ \A i \in DOMAIN bulk_availability : NoFareLeft(bulk_availability[i])

\* None, or a dict whose lists are all empty
EmptyResult(res) == res.none \/ \A i \in DOMAIN res.v : res.v[i][2] = <<>>

\* C11: a round-trip pass whose batch is empty, wholly unresolvable, without
\* available fares or without a pair of opposite directions returns None
\* without raising, and a single-trip pass whose batch is empty, wholly
\* unresolvable or without available fares returns None or an empty map
\* without raising.
C11_DataAbsenceNoRaise ==
    /\ (RoundPassDone /\ (DataAbsent \/ NoOppositePair)) =>
           round_out.err = "ok" /\ Falsy(round_out.ret)
    /\ (SinglePassDone /\ DataAbsent) =>
           single_out.err = "ok" /\ EmptyResult(single_out.ret)

\* A round-trip pass that built a non-empty cabin frame from resolvable
\* records, found no pair of opposite directions and returned None.
C11_Witness ==
    /\ RoundPassDone
    /\ NoOppositePair
    /\ ~DataAbsent
    /\ \E i \in DOMAIN round_out.parts : round_out.parts[i][2] # <<>>
    /\ round_out.err = "ok"
    /\ round_out.ret.none

NormalizerDone == mode = "pass" /\ pc = "normalized"

\* both airports of a record resolve to a city and to a country
ResolvesToCityAndCountry(rec) ==
    /\ rec.OriginAirport \in DOMAIN IATA_CITY \cap DOMAIN IATA_COUNTRY
    /\ rec.DestinationAirport \in DOMAIN IATA_CITY \cap DOMAIN IATA_COUNTRY

\* the raw record a normalized row was made from
RawOf(row) ==
    [ID |-> row.ID, OriginAirport |-> row.OriginAirport,
     DestinationAirport |-> row.DestinationAirport, Date |-> row.Date,
     TaxesCurrency |-> row.TaxesCurrency, fare |-> row.fare]

\* C12: the rows the normalizer returns are, in input order and once each,
\* exactly the records of the batch whose origin and destination airports
\* both resolve to a city and a country.
C12_NormalizerKeepsResolved ==
    NormalizerDone =>
        [i \in DOMAIN norm_out |-> RawOf(norm_out[i])]
            = SelectSeq(bulk_availability, ResolvesToCityAndCountry)

\* A batch with an unresolvable record, a record without coordinates and a
\* fully known record: the first is dropped, the other two are kept.
C12_Witness ==
    /\ NormalizerDone
    /\ Len(bulk_availability) = 3
    /\ Len(norm_out) = 2
    /\ \E i \in DOMAIN bulk_availability : bulk_availability[i].OriginAirport = "ZZZ"
    /\ \E i \in DOMAIN norm_out : norm_out[i].OriginAirport = "MCP"

\* the rows of a cabin's frame that pass the filter of the pass, in order
PassingRows(cabin) ==
    IF HasKey(single_out.parts, cabin)
        THEN SelectSeq(DictGet(single_out.parts, cabin),
                       LAMBDA row : filter = <<>> \/ filter_trip(row, filter, <<>>))
        ELSE <<>>

SamePair(a, b) ==
    a.origin_city = b.origin_city /\ a.destination_city = b.destination_city

\* trip is made from the first of the cheapest rows of its city pair
IsFirstCheapest(rows, trip) ==
    \E i \in DOMAIN rows :
        /\ rows[i].ID = trip.ID
        /\ SamePair(rows[i], trip)
        /\ trip.totalCost = rows[i].TotalCost
        /\ \A j \in DOMAIN rows : SamePair(rows[j], trip) =>
               /\ rows[j].TotalCost >= rows[i].TotalCost
               /\ (j < i => rows[j].TotalCost > rows[i].TotalCost)

SinglePicked == mode = "pass" /\ pc = "picked_single" /\ pick_out.err = "ok"

\* a trip whose distance is a positive number of kilometres
HasDistance(trip) == Len(trip.distance) = 1 /\ trip.distance[1] > 0

\* totalCost / (distance * 0.7) of a is at most that of b
TripScoreLeq(a, b) ==
    FracLeq(a.totalCost, a.distance[1], b.totalCost, b.distance[1])

PositionIn(trips, trip) == CHOOSE i \in DOMAIN trips : trips[i] = trip

\* out is the min(n, count) lowest-score trips of trips, ascending, trips
\* of equal score in the order of trips
LowestScoreFirst(trips, n, out) ==
    /\ Len(out) = Min(n, Len(trips))
    /\ \A i \in DOMAIN out : out[i] \in Range(trips)
    /\ \A i, j \in DOMAIN out : i < j =>
           /\ out[i] # out[j]
           /\ TripScoreLeq(out[i], out[j])
           /\ TripScoreLeq(out[j], out[i]) =>
                  PositionIn(trips, out[i]) < PositionIn(trips, out[j])
    /\ \A t \in Range(trips) \ Range(out) :
           \A i \in DOMAIN out : TripScoreLeq(out[i], t)

FilterDone == mode = "filter" /\ pc = "filtered"

\* the value of a field of the outbound row, "Unknown" when it has none
FieldOrUnknown(name) ==
    IF name \in DOMAIN filt_in.outbound_row
        THEN filt_in.outbound_row[name]
        ELSE "Unknown"

PlaceCriteria ==
    {"origin_country", "destination_country", "origin_cities",
     "destination_cities", "exclude_origin_cities", "exclude_destination_cities"}

\* one country or city criterion, evaluated on the outbound row
CriterionPasses(key) ==
    CASE key = "origin_country" ->
             FieldOrUnknown("origin_country") = filt_in.filters[key]
      [] key = "destination_country" ->
             FieldOrUnknown("destination_country") = filt_in.filters[key]
      [] key = "origin_cities" ->
             FieldOrUnknown("origin_city") \in filt_in.filters[key]
      [] key = "destination_cities" ->
             FieldOrUnknown("destination_city") \in filt_in.filters[key]
      [] key = "exclude_origin_cities" ->
             FieldOrUnknown("origin_city") \notin filt_in.filters[key]
      [] key = "exclude_destination_cities" ->
             FieldOrUnknown("destination_city") \notin filt_in.filters[key]

\* the row field an allow-list or exact-match criterion reads
FieldOf(key) ==
    CASE key = "origin_country" -> "origin_country"
      [] key = "destination_country" -> "destination_country"
      [] key = "origin_cities" -> "origin_city"
      [] key = "destination_cities" -> "destination_city"

TripsOf(by_cabin) == UNION {Range(by_cabin[i][2]) : i \in DOMAIN by_cabin}

\* C16 (as claimed): with max_cost = M supplied, the round-trip pass builds
\* no candidate whose outbound totalCost + return totalCost exceeds M, and
\* the single-trip pass returns no trip whose totalCost exceeds M.
C16_MaxCostEnforced ==
    (mode = "pass" /\ "max_cost" \in DOMAIN filter) =>
        /\ (round_out.err = "ok") =>
               \A c \in CandidatesOf(round_out.built) :
                   c.outbound.totalCost + c.return_.totalCost <= filter["max_cost"]
        /\ (single_out.err = "ok" /\ ~single_out.ret.none) =>
               \A t \in TripsOf(single_out.ret.v) :
                   t.totalCost <= filter["max_cost"]

\* the distance of a row satisfies the bounds the filter supplies
WithinDistance(row) ==
    /\ "min_distance" \in DOMAIN filter => filter["min_distance"] <= row.Distance[1]
    /\ "max_distance" \in DOMAIN filter => row.Distance[1] <= filter["max_distance"]

\* the rows of a cabin frame of the single-trip pass that have a distance
MeasuredRows(k) ==
    SelectSeq(single_out.parts[k][2], LAMBDA row : Len(row.Distance) = 1)

\* C17 (as claimed): with only distance bounds supplied, a city pair has a
\* trip in the output of the single-trip pass exactly when one of its rows
\* has a distance within the bounds, and the outbound leg of every
\* round-trip candidate has a distance within the bounds.
C17_DistanceBoundsEnforced ==
    (/\ mode = "pass"
     /\ filter # <<>>
     /\ DOMAIN filter \subseteq {"min_distance", "max_distance"}) =>
        /\ (single_out.err = "ok" /\ ~single_out.ret.none) =>
               \A k \in DOMAIN single_out.parts :
                   \A r \in DOMAIN MeasuredRows(k) :
                       (\E q \in DOMAIN MeasuredRows(k) :
                            /\ SamePair(MeasuredRows(k)[q], MeasuredRows(k)[r])
                            /\ WithinDistance(MeasuredRows(k)[q]))
                       <=> (/\ HasKey(single_out.ret.v, single_out.parts[k][1])
                            /\ \E t \in Range(DictGet(single_out.ret.v,
                                                      single_out.parts[k][1])) :
                                   SamePair(t, MeasuredRows(k)[r]))
        /\ (round_out.err = "ok") =>
               \A c \in CandidatesOf(round_out.built) :
                   Len(c.outbound.distance) = 1 =>
                       WithinDistance([Distance |-> c.outbound.distance])

(***************************************************************************)
(* Claims about the scoring function.                                      *)
(***************************************************************************)
ScoreDone == mode = "score" /\ pc = "scored"

\* every trip passed has a positive cost and a numeric distance
AllPricedAndMeasured ==
    \A i \in DOMAIN score_in :
        score_in[i].totalCost > 0 /\ Len(score_in[i].distance) = 1

\* C18 (as claimed): for trips with a cost, whose distances sum to zero,
\* score returns positive infinity and raises nothing.
C18_ZeroDistanceIsInfinite ==
    (/\ ScoreDone
     /\ score_in # <<>>
     /\ AllPricedAndMeasured
     /\ \A i \in DOMAIN score_in : score_in[i].distance[1] = 0) =>
        score_out.err = "ok" /\ score_out.inf

\* no trip, or a trip with a zero cost or without a distance
InvalidArguments ==
    \/ score_in = <<>>
    \/ \E i \in DOMAIN score_in :
           score_in[i].totalCost = 0 \/ Len(score_in[i].distance) # 1

\* C19 (as claimed): score raises exactly when no trip is passed or some
\* trip has a zero cost or no distance; otherwise it returns
\* sum(totalCost) / (sum(distance) * 0.7), infinity for a zero sum.
C19_ScoreFailsIffInvalid ==
    ScoreDone =>
        /\ score_out.err # "ok" <=> InvalidArguments
        /\ (~InvalidArguments /\ score_out.err = "ok") =>
               IF SumDistance(score_in) = 0
                   THEN score_out.inf
                   ELSE /\ ~score_out.inf
                        /\ score_out.num * 7 * SumDistance(score_in)
                               = score_out.den * 10 * SumCost(score_in)

(***************************************************************************)
(* Claims about records without coordinates.                               *)
(***************************************************************************)
SelectionDone == mode = "pass" /\ pc \in {"picked_single", "picked_round"}

\* the legs of every trip or candidate of a selection output
SelectedLegs ==
    IF pick_out.ret.none THEN {}
    ELSE IF pc = "picked_single" THEN TripsOf(pick_out.ret.v)
    ELSE UNION {{c.outbound, c.return_} : c \in CandidatesOf(pick_out.ret.v)}

\* C20 (as claimed): the selection that follows a pass never raises, and
\* every leg in its output has a distance: a record whose airport has no
\* coordinates was dropped on the way.
C20_NoCoordinatesDropped ==
    SelectionDone =>
        /\ pick_out.err = "ok"
        /\ \A leg \in SelectedLegs : Len(leg.distance) = 1

(***************************************************************************)
(* Claims about missing valuations and rates.                              *)
(***************************************************************************)
\* what the pass of this behaviour returned: [err, ret, parts]
ValuationOut ==
    IF round_out.err # "idle"
        THEN [err |-> round_out.err, ret |-> round_out.ret, parts |-> round_out.parts]
        ELSE single_out

ValuationDone == mode = "valuation" /\ pc # "ready"

\* the batch has a record to cost, and the table no value for the source
ValuationMissing ==
    /\ source \notin DOMAIN mileage_table
    /\ \E i \in DOMAIN bulk_availability : ~Unresolvable(bulk_availability[i])

\* a record to cost has taxes in a foreign currency whose rate is neither
\* cached nor served
RateMissing ==
    \E i \in DOMAIN bulk_availability :
        /\ ~Unresolvable(bulk_availability[i])
        /\ ~NoFareLeft(bulk_availability[i])
        /\ bulk_availability[i].TaxesCurrency # target_currency
        /\ ~RateKnown(bulk_availability[i].TaxesCurrency)

\* every row of every cabin frame is costed with the table's value and the
\* real rate
CostedFromRealValues(parts) ==
    \A k \in DOMAIN parts : \A i \in DOMAIN parts[k][2] :
        /\ source \in DOMAIN mileage_table
        /\ parts[k][2][i].TaxesCurrency # target_currency =>
               RateKnown(parts[k][2][i].TaxesCurrency)
        /\ parts[k][2][i].TotalCost =
               (parts[k][2][i].fare[parts[k][1]].MileageCostRaw
                    * mileage_table[source]) \div 1000
               + ConvertedTaxes(parts[k][2][i], parts[k][1])

\* the cache holds what it held, and for any other currency the rate served
CacheSound ==
    /\ \A cur \in DOMAIN cache0 : cur \in DOMAIN cache /\ cache[cur] = cache0[cur]
    /\ \A cur \in DOMAIN cache \ DOMAIN cache0 :
           RateKnown(cur) /\ cache[cur] = ScaledRate(cur)

\* the state part of C21
C21_FailureSurfaced ==
    ValuationDone =>
        /\ (ValuationMissing \/ RateMissing) =>
               ValuationOut.err # "ok" /\ ValuationOut.ret.none
        /\ ValuationOut.err = "ok" => CostedFromRealValues(ValuationOut.parts)
        /\ ValuationOut.err # "ok" =>
               /\ ValuationMissing \/ RateMissing
               /\ CacheSound
        /\ ValuationMissing => cache = cache0

C22_NoEmptyCabinInOutput ==
    \A r \in DOMAIN sel_runs :
        (sel_runs[r].err = "ok" /\ ~sel_runs[r].ret.none) =>
            \A k \in DOMAIN sel_runs[r].ret.v : sel_runs[r].ret.v[k][2] # <<>>


(***************************************************************************)
(* SpecLookup: get_rate called by several request threads on the one       *)
(* CashHandler of the process (cash.py:64-97, cash.py:119).  A step is a   *)
(* stretch of code between two accesses of the shared cache.               *)
(***************************************************************************)
NumLookups == 2       \* threads looking up a rate

Threads == 1..NumLookups

\* A value held by the cache or returned: the int normal_to_cents gives,
\* or the float conversion_rate of the response (in thousandths).
IntRate(v) == <<"int", v>>

FloatRate(r) == <<"float", r>>

\* self.cache[base_currency] = value
CacheWith(c, base_currency, value) ==
    [k \in DOMAIN c \cup {base_currency} |->
        IF k = base_currency THEN value ELSE c[k]]

LookupCaches ==
    {[k \in DOMAIN c |-> IntRate(c[k])] : c \in {<<>>, [cur \in {"EUR"} |-> 2000]}}

InitLookup ==
    /\ mode = "lookup"
    /\ pc = "ready"
    /\ api \in ApiAnswers
    /\ cache \in LookupCaches
    /\ cache0 = cache
    /\ source = "azul"
    /\ mileage_table = mileage_values
    /\ lookups \in [Threads ->
           {[pc |-> "start", base_currency |-> cur, rate |-> 0, ret |-> Idle] :
               cur \in {"BRL", "EUR"}}]
    /\ requests_made = [cur \in Currencies |-> 0]
    /\ FetchUnused
    /\ RouteUnused
    /\ OthersUnused
    /\ FilterUnused
    /\ ScoreUnused

LookupRest ==
    UNCHANGED <<mode, pc, mileage_table, fetchVars, routeVars, api, cache0, cabinVars,
                convVars, roundVars, selVars, mergeVars, passVars, filtVars, scoreVars>>

\* get_rate up to its return on a hit (cash.py:65-66)
LookupCache(t) ==
    /\ mode = "lookup"
    /\ lookups[t].pc = "start"
    /\ lookups' =
           IF lookups[t].base_currency \in DOMAIN cache
               THEN [lookups EXCEPT ![t].pc = "done",
                        ![t].ret = [err |-> "ok",
                                    rate |-> cache[lookups[t].base_currency]]]
               ELSE [lookups EXCEPT ![t].pc = "fetch"]
    /\ UNCHANGED <<cache, requests_made>>
    /\ LookupRest

\* fetch_rate: the request and the write of conversion_rate (cash.py:84-97),
\* f being its outcome
FetchRateStep(t, f) ==
    /\ requests_made' =
           [requests_made EXCEPT ![lookups[t].base_currency] = @ + 1]
    /\ IF f.err = "ok"
           THEN /\ cache' = CacheWith(cache, lookups[t].base_currency,
                                      FloatRate(f.rate))
                /\ lookups' = [lookups EXCEPT ![t].pc = "store",
                                              ![t].rate = f.rate]
           ELSE /\ cache' = cache
                /\ lookups' = [lookups EXCEPT ![t].pc = "done",
                                  ![t].ret = [err |-> f.err, rate |-> <<>>]]

FetchRate(t) ==
    /\ mode = "lookup"
    /\ lookups[t].pc = "fetch"
    /\ \E f \in {fetch_rate(lookups[t].base_currency)} : FetchRateStep(t, f)
    /\ LookupRest

\* get_rate after fetch_rate returned (cash.py:69-71), s being the outcome
\* of normal_to_cents
StoreRateStep(t, s) ==
    IF s.err = "ok"
        THEN /\ cache' = CacheWith(cache, lookups[t].base_currency, IntRate(s.v))
             /\ lookups' = [lookups EXCEPT ![t].pc = "done",
                               ![t].ret = [err |-> "ok", rate |-> IntRate(s.v)]]
        ELSE /\ cache' = cache
             /\ lookups' = [lookups EXCEPT ![t].pc = "done",
                               ![t].ret = [err |-> s.err, rate |-> <<>>]]

StoreRate(t) ==
    /\ mode = "lookup"
    /\ lookups[t].pc = "store"
    /\ \E s \in {normal_to_cents(lookups[t].rate)} : StoreRateStep(t, s)
    /\ UNCHANGED requests_made
    /\ LookupRest

NextLookup ==
    \E t \in Threads : LookupCache(t) \/ FetchRate(t) \/ StoreRate(t)

SpecLookup == InitLookup /\ [][NextLookup]_vars

Returned(t) == lookups[t].pc = "done" /\ lookups[t].ret.err = "ok"

\* C23 (as claimed): also with lookups running concurrently, every lookup of
\* a currency returns the same integer, never the unscaled rate, and a
\* currency's rate is obtained from the service at most once.
C23_ScaledRateFetchedOnce ==
    /\ \A t \in DOMAIN lookups :
           Returned(t) =>
               /\ lookups[t].ret.rate[1] = "int"
               /\ \A u \in DOMAIN lookups :
                      (Returned(u)
                        /\ lookups[u].base_currency = lookups[t].base_currency)
                          => lookups[u].ret.rate = lookups[t].ret.rate
    /\ \A cur \in DOMAIN requests_made :
           fetch_rate(cur).err = "ok" => requests_made[cur] <= 1


\* C24 (as claimed): with a minimum of 0 days and a maximum of M days, no
\* candidate of the round pass's output returns more than M days after its
\* outbound leg.
C24_ZeroMinimumKeepsWindow ==
    (RoundDone /\ round_out.err = "ok" /\ ~round_out.ret.none
        /\ min_return_days = <<0>> /\ max_return_days # <<>>) =>
        \A c \in CandidatesOf(round_out.ret.v) :
            DateOfTrip(c.return_) - DateOfTrip(c.outbound) <= max_return_days[1]


\* C25 (as claimed): a call of find_cheapest_for_round_trips leaves the map
\* it was handed as it was: every candidate list keeps its elements in
\* their order.
C25_InputLeftUnchanged == [][sel_in' = sel_in]_vars


\* C26 (as claimed): the round pass returns every requested cabin for which
\* it built at least one pairing, whatever the cabins processed after it
\* hold.
C26_CabinWithPairingsReturned ==
    (RoundDone /\ round_out.err = "ok") =>
        \A cabin \in Range(DictKeys(round_out.built)) :
            /\ ~round_out.ret.none
            /\ HasKey(round_out.ret.v, cabin)


\* cost per distance of candidate a strictly below that of candidate b
RatioLess(a, b) ==
    CombinedCost(a) * (b.outbound.distance[1] + b.return_.distance[1])
        < CombinedCost(b) * (a.outbound.distance[1] + a.return_.distance[1])

NewData_all(current_data, seen_ids) ==
    [new_data |-> current_data, seen_ids |-> seen_ids]

\* new_data and seen_ids after the loop over current_data
\* (seats_aero.py:219-224); an item's ID is <<>> (missing) or <<id>>
RECURSIVE NewDataFrom(_, _, _)
NewDataFrom(current_data, seen_ids, new_data) ==
    IF current_data = <<>>
        THEN [new_data |-> new_data, seen_ids |-> seen_ids]
    ELSE LET item == Head(current_data) IN
         IF item.ID # <<>> /\ item.ID[1] \notin seen_ids
             THEN NewDataFrom(Tail(current_data), seen_ids \cup {item.ID[1]},
                              Append(new_data, item))
             ELSE NewDataFrom(Tail(current_data), seen_ids, new_data)

NewData(current_data, seen_ids) == NewDataFrom(current_data, seen_ids, <<>>)

\* one turn of the loop (seats_aero.py:210-243): st is the state before the
\* request, response the answer to it, d the outcome of the deduplication
AfterResponse(st, response, d) ==
    IF response.status_code = 200
        THEN [at |-> IF response.hasMore /\ response.cursor # <<>>
                         THEN "loop" ELSE "break",
              requests |-> st.requests + 1,
              all_data |-> st.all_data \o d.new_data,
              seen_ids |-> d.seen_ids,
              response |-> <<response.status_code>>]
        ELSE [at |-> "break",
              requests |-> st.requests + 1,
              all_data |-> st.all_data,
              seen_ids |-> st.seen_ids,
              response |-> <<response.status_code>>]

\* what the code after the loop does (seats_aero.py:246-254); with no
\* request made response is None and response.status_code raises
FetchResult(st) ==
    IF st.response # <<>> /\ st.response[1] = 200 /\ st.all_data # <<>>
        THEN [err |-> "ok", ret |-> st.all_data]
    ELSE IF st.response = <<>>
        THEN [err |-> "AttributeError", ret |-> <<>>]
    ELSE [err |-> "ok", ret |-> <<>>]

(***************************************************************************)
(* SpecFetch: one call of fetch_bulk_availability against a service that   *)
(* answers the successive requests with the pages of `pages`.              *)
(***************************************************************************)
MaxDeepness == 2      \* deepness, and pages the service holds
MaxItems == 1         \* items of a page (one page form holds an ID twice)

Item(id) == [ID |-> id]

PageData ==
    UNION {[1..k -> {Item(<<>>), Item(<<1>>), Item(<<2>>)}] : k \in 0..MaxItems}
        \cup {<<Item(<<1>>), Item(<<1>>)>>}

Pages ==
    {[status_code |-> 200, data |-> d, hasMore |-> h[1], cursor |-> h[2]] :
        d \in PageData, h \in {<<TRUE, <<"c">>>>, <<TRUE, <<>>>>, <<FALSE, <<>>>>}}
    \cup {[status_code |-> 500, data |-> <<>>, hasMore |-> FALSE, cursor |-> <<>>]}

InitFetch ==
    /\ mode = "fetch"
    /\ pc = "ready"
    /\ api = ApiUp
    /\ cache = TestCache
    /\ cache0 = cache
    /\ source = "azul"
    /\ mileage_table = mileage_values
    /\ LookupUnused
    /\ pages \in [1..MaxDeepness -> Pages]
    /\ deepness \in 0..MaxDeepness
    /\ fetch_state = [at |-> "loop", requests |-> 0, all_data |-> <<>>,
                      seen_ids |-> {}, response |-> <<>>]
    /\ fetch_out = [err |-> "idle"]
    /\ RouteUnused
    /\ OthersUnused
    /\ FilterUnused
    /\ ScoreUnused

FetchRest ==
    UNCHANGED <<mode, pc, mileage_table, lookupVars, routeVars, cashVars,
                cabinVars, convVars, roundVars, selVars, mergeVars, passVars, filtVars,
                scoreVars>>

\* one request and the handling of its response
RequestPage ==
    /\ mode = "fetch"
    /\ fetch_out.err = "idle"
    /\ fetch_state.at = "loop"
    /\ fetch_state.requests < deepness
    /\ \E response \in {pages[fetch_state.requests + 1]} :
         \E d \in {NewData(response.data, fetch_state.seen_ids)} :
             fetch_state' = AfterResponse(fetch_state, response, d)
    /\ UNCHANGED <<pages, deepness, fetch_out>>
    /\ FetchRest

\* the loop is left, by break or by exhaustion, and the call ends
ReturnData ==
    /\ mode = "fetch"
    /\ fetch_out.err = "idle"
    /\ fetch_state.at = "break" \/ fetch_state.requests = deepness
    /\ fetch_out' = FetchResult(fetch_state)
    /\ UNCHANGED <<pages, deepness, fetch_state>>
    /\ FetchRest

NextFetch == RequestPage \/ ReturnData

SpecFetch == InitFetch /\ [][NextFetch]_vars

FetchDone == mode = "fetch" /\ fetch_out.err # "idle"

ReportsMore(page) ==
    page.status_code = 200 /\ page.hasMore /\ page.cursor # <<>>

SellingPrices(trips) == [i \in DOMAIN trips |-> trips[i].selling_price]

MileageCosts(trips) ==
    [i \in DOMAIN trips |->
        trips[i].outbound.mileage_cost + trips[i].return_.mileage_cost]

TaxesOf(trips) ==
    [i \in DOMAIN trips |->
        trips[i].outbound.normal_taxes + trips[i].return_.normal_taxes]

TotalCosts(trips) ==
    [i \in DOMAIN trips |->
        trips[i].outbound.normal_total_cost + trips[i].return_.normal_total_cost]

RECURSIVE SumOf(_)
SumOf(values) ==
    IF values = <<>> THEN 0 ELSE Head(values) + SumOf(Tail(values))

\* sorted(roundTrips, key=...) builds a sorted copy that the code drops;
\* roundTrips[-1], roundTrips[0] and sum(...) // len(roundTrips) then read
\* the list as it was handed in (trip_builder.py:435-438); values holds
\* the key of each round trip, in list order
Statistics(values) ==
    [highest |-> values[Len(values)],
     lowest |-> values[1],
     average |-> SumOf(values) \div Len(values)]

\* Route.__init__ for a non-empty list (trip_builder.py:435-453)
Route(trips) ==
    [err |-> "ok",
     selling_price |-> Statistics(SellingPrices(trips)),
     mileage_cost |-> Statistics(MileageCosts(trips)),
     taxes |-> Statistics(TaxesOf(trips)),
     total_cost |-> Statistics(TotalCosts(trips))]

(***************************************************************************)
(* SpecRoute: a Route built from a list of round trips.                    *)
(***************************************************************************)
MaxRoute == 3         \* round trips of a route

Leg(mileage_cost, normal_taxes, normal_total_cost) ==
    [mileage_cost |-> mileage_cost, normal_taxes |-> normal_taxes,
     normal_total_cost |-> normal_total_cost]

RoundTripPool ==
    {[selling_price |-> 300, outbound |-> Leg(10, 5, 100), return_ |-> Leg(20, 5, 150)],
     [selling_price |-> 200, outbound |-> Leg(30, 7, 90), return_ |-> Leg(10, 1, 90)],
     [selling_price |-> 250, outbound |-> Leg(5, 10, 200), return_ |-> Leg(5, 10, 100)],
     [selling_price |-> 201, outbound |-> Leg(10, 5, 100), return_ |-> Leg(21, 6, 151)]}

InitRoute ==
    /\ mode = "route"
    /\ pc = "ready"
    /\ api = ApiUp
    /\ cache = TestCache
    /\ cache0 = cache
    /\ source = "azul"
    /\ mileage_table = mileage_values
    /\ LookupUnused
    /\ FetchUnused
    /\ roundTrips \in UNION {[1..k -> RoundTripPool] : k \in 1..MaxRoute}
    /\ route = [err |-> "idle"]
    /\ OthersUnused
    /\ FilterUnused
    /\ ScoreUnused

BuildRoute ==
    /\ mode = "route"
    /\ route.err = "idle"
    /\ route' = Route(roundTrips)
    /\ UNCHANGED <<mode, pc, mileage_table, lookupVars, fetchVars, roundTrips,
                   cashVars, cabinVars, convVars, roundVars, selVars,
                   mergeVars, passVars, filtVars, scoreVars>>

NextRoute == BuildRoute

SpecRoute == InitRoute /\ [][NextRoute]_vars

RouteBuilt == mode = "route" /\ route.err = "ok"

IsExtremes(stat, values) ==
    /\ stat.highest \in Range(values)
    /\ \A v \in Range(values) : v <= stat.highest
    /\ stat.lowest \in Range(values)
    /\ \A v \in Range(values) : stat.lowest <= v
    /\ stat.average = SumOf(values) \div Len(values)

\* C29 (as claimed): in a Route built from a non-empty list, highest_X is the
\* maximum, lowest_X the minimum and average_X the floored mean of X over
\* the round trips, for the selling price, the mileage cost, the taxes and
\* the total cost, whatever the order of the list.
C29_RouteStatistics ==
    RouteBuilt =>
        /\ IsExtremes(route.selling_price, SellingPrices(roundTrips))
        /\ IsExtremes(route.mileage_cost, MileageCosts(roundTrips))
        /\ IsExtremes(route.taxes, TaxesOf(roundTrips))
        /\ IsExtremes(route.total_cost, TotalCosts(roundTrips))


(***************************************************************************)
(* src/logic/filter.py: getTopNTripsFromMultipleSources.                   *)
(***************************************************************************)
\* the loop over one source's cabins (filter.py:86-89):
\* trips_by_cabin[cabin].extend(trips)
RECURSIVE ExtendCabins(_, _)
ExtendCabins(acc, tripsByCabin) ==
    IF tripsByCabin = <<>> THEN acc
    ELSE LET e == Head(tripsByCabin)
             existing == IF HasKey(acc, e[1]) THEN DictGet(acc, e[1]) ELSE <<>>
         IN  ExtendCabins(DictSet(acc, e[1], existing \o e[2]), Tail(tripsByCabin))

(***************************************************************************)
(* SpecTop: getTopNTripsFromMultipleSources, one loop iteration per step.  *)
(***************************************************************************)
InitTop ==
    /\ mode = "top"
    /\ pc = "start"
    /\ api = ApiUp
    /\ cache = TestCache
    /\ cache0 = cache
    /\ source = "-"
    /\ mileage_table = mileage_values
    /\ ServiceUnused
    /\ CabinUnused
    /\ bulk_availability = <<>>
    /\ min_return_days = <<>>
    /\ max_return_days = <<>>
    /\ include_cabins \in {<<>>, <<"Y">>}
    /\ filter = <<>>
    /\ round_out = Idle
    /\ SelUnused
    /\ bulk_availability_by_source \in SourceMaps
    /\ n_arg \in 1..MaxN
    /\ src_i = 0
    /\ merged_trips = <<>>
    /\ source_maps = <<>>
    /\ merge_out = Idle
    /\ PassUnused
    /\ FilterUnused
    /\ ScoreUnused

TopRest ==
    UNCHANGED <<mode, mileage_table, serviceVars, api, cache0, cabinVars,
                convVars, roundVars, selVars, bulk_availability_by_source,
                n_arg, passVars, filtVars, scoreVars>>

\* filter.py:65-68
TopStart ==
    /\ mode = "top"
    /\ pc = "start"
    /\ IF bulk_availability_by_source = <<>>
           THEN /\ merge_out' = [err |-> "ok", ret |-> NoneResult]
                /\ pc' = "done"
                /\ src_i' = src_i
           ELSE /\ merge_out' = merge_out
                /\ pc' = "loop"
                /\ src_i' = 1
    /\ UNCHANGED <<cache, merged_trips, source_maps>>
    /\ TopRest

\* one iteration of the loop over the sources (filter.py:69-89), r being
\* what the single-trip pass returns for the batch
TopSourceStep(batch, r) ==
    IF batch = <<>>
        THEN /\ src_i' = src_i + 1 /\ pc' = pc
             /\ UNCHANGED <<cache, merged_trips, source_maps, merge_out>>
    ELSE IF r.err # "ok"
        THEN /\ merge_out' = [err |-> r.err, ret |-> NoneResult]
             /\ cache' = r.cache
             /\ pc' = "done"
             /\ UNCHANGED <<src_i, merged_trips, source_maps>>
    ELSE IF Falsy(r.ret)
        THEN /\ cache' = r.cache
             /\ src_i' = src_i + 1 /\ pc' = pc
             /\ UNCHANGED <<merged_trips, source_maps, merge_out>>
    ELSE /\ cache' = r.cache
         /\ merged_trips' = ExtendCabins(merged_trips, r.ret.v)
         /\ source_maps' = Append(source_maps, r.ret.v)
         /\ src_i' = src_i + 1 /\ pc' = pc
         /\ UNCHANGED merge_out

TopSource ==
    /\ mode = "top"
    /\ pc = "loop"
    /\ src_i <= Len(bulk_availability_by_source)
    /\ \E r \in {process_bulk_availability_object_for_single_trips(
                    bulk_availability_by_source[src_i][2],
                    bulk_availability_by_source[src_i][1],
                    CabinsOrAll(include_cabins), filter, cache)} :
           TopSourceStep(bulk_availability_by_source[src_i][2], r)
    /\ TopRest

\* after the loop (filter.py:91-104)
TopSelect ==
    /\ mode = "top"
    /\ pc = "loop"
    /\ src_i > Len(bulk_availability_by_source)
    /\ \E top \in {find_cheapest_for_single_trips(Value(merged_trips), n_arg)} :
         merge_out' =
             IF merged_trips = <<>> \/ AllCabinsEmpty(merged_trips)
                 THEN [err |-> "ok", ret |-> NoneResult]
                 ELSE [err |-> top.err, ret |-> top.ret]
    /\ pc' = "done"
    /\ UNCHANGED <<cache, src_i, merged_trips, source_maps>>
    /\ TopRest

NextTop == TopStart \/ TopSource \/ TopSelect

SpecTop == InitTop /\ [][NextTop]_vars

TopDone == mode = "top" /\ pc = "done"

====
